---- MODULE Spec2Model ----
(***************************************************************************)
(* A model of the backup retention purge (src/purgeScript.js) and of the   *)
(* storage connectors it drives (src/file-management-utils.js).            *)
(*                                                                         *)
(* The specifications of this module:                                      *)
(*   DryrunSpec         the module-level parsing of the DRYRUN setting;    *)
(*   Spec, RunSpec      the purge run, for one and for two installations;  *)
(*   DeleteAllSpec      one deleteAll call of the S3 or GCS connector;     *)
(*   CallSpec           one deleteAll or one transferBackupFiles call;     *)
(*   BatchSpec          the itemQueue of a batch, by task counts;          *)
(*   ListVersionsSpec   one listFileVersions call of the S3 connector;     *)
(*   ListBackupsSpec    one listBackups call of either connector;          *)
(*   CalculateDateSpec  one backup name dated through the S3 connector;    *)
(*   DeleteVersionSpec  one deleteObjectVersion call of the S3 connector;  *)
(*   DispatchSpec       one call of the dispatcher, or one transferFiles;  *)
(*   RetrySpec          one call of a bucket configuration retry helper;   *)
(*   FolderSpec         the deletion of one backup's folder, key by key.   *)
(* Each specification leaves the variables of the others at their initial  *)
(* values.                                                                 *)
(***************************************************************************)
EXTENDS Integers, Sequences, FiniteSets, TLC

VARIABLES
    \* ---- purgeScript.js
    DRYRUN,          \* process.env.DRYRUN: undefined or a string (a sequence of characters)
    dryrun,          \* the script's dryrun variable (undefined before line 10 ran)
    quantity,        \* the number of backups to retain
    consul,          \* the installation ids getInstallationIdList will answer
    pc,              \* position of the script's main chain
    installations,   \* the resolved installation list
    instIdx,         \* index of currentInstallation in the outer for loop
    fsIdx,           \* index of filesource in the inner for loop
    listCalls,       \* the (installation, filesource) pairs listBackups was called for
    listFailed,      \* the pairs whose listBackups call rejected
    promises,        \* per installation: the promises array (backup objects)
    stage,           \* per installation: how far its Promise.all chain came
    backupsToDelete, \* per installation: the purge candidates
    backupsToKeep,   \* per installation: the backups reported as kept
    tasks,           \* per installation: the tasks pushed to its itemQueue
    taskState,       \* per installation: the state of each pushed task
    deleteAllCalls,  \* every FileUtils.deleteAll call made, in call order
    dryLog,          \* per installation: the 'Delete: ' lines of the dry run
    purgeComplete,   \* per installation: how often 'Purge complete' was logged
    exited,          \* the node process was ended by an unhandled rejection
    \* ---- file-management-utils.js, deleteAll
    da,              \* the state of one deleteAll call (a record)
    \* ---- the itemQueue of a batch, by task counts
    batch,           \* the state of one async.queue batch (a record)
    \* ---- file-management-utils.js, transferBackupFiles
    tr,              \* the state of one transferBackupFiles call (a record)
    \* ---- file-management-utils.js, S3 listFileVersions
    lv,              \* the state of one listFileVersions call (a record)
    \* ---- file-management-utils.js, listBackups
    lb,              \* the state of one listBackups call (a record)
    \* ---- file-management-utils.js, S3 calculateDate
    cd,              \* the state of one calculateDate call (a record)
    \* ---- file-management-utils.js, S3 deleteObjectVersion
    dov,              \* the state of one deleteObjectVersion call (a record)
    \* ---- file-management-utils.js, the dispatcher (files)
    dp,              \* the state of one dispatcher call (a record)
    \* ---- file-management-utils.js, putBucketTags and its two siblings
    rt,              \* the state of one retry helper call (a record)
    \* ---- purgeScript.js and file-management-utils.js: the deletion of a backup
    pd               \* the state of one backup folder's deletion (a record)

purgeVars == <<DRYRUN, dryrun, quantity, consul, pc, installations, instIdx, fsIdx,
               listCalls, promises, stage, backupsToDelete, backupsToKeep, tasks,
               taskState, deleteAllCalls, dryLog, purgeComplete, listFailed, exited>>
moreVars == <<dov, dp, rt, pd>>
utilVars == <<batch, tr, lv, lb, cd, moreVars>>
vars == <<purgeVars, da, utilVars>>

------------------------------------------------------------------------------
(* Bounds of the model *)

\* how many tasks more than its queue's limit the largest batch holds
MaxOver == 1
\* most objects in the manifest of a transfer
MaxObjects == 2
\* most keys under the listed prefix, most entries (object versions and delete
\* markers) of one key, and the largest page the provider answers with
MaxKeys == 2
MaxPerKey == 2
MaxPage == 2
\* most requests one listBackups call is followed through
MaxRequests == 3
\* longest backup name tried whose length is neither 14 nor 35
MaxNameLen == 36
\* longest DRYRUN value tried
MaxEnvLen == 5
\* largest retention quantity tried (the script's own value is 30)
MaxQuantity == 2
\* most backups one listBackups call returns in Spec
MaxList == 2
\* most backups listed for one installation, over all its filesources
MaxBackups == 4
\* most backups one listBackups call returns in RunSpec
MaxListRun == 1
\* number of distinct calendar dates calculateDate can resolve to
MaxDate == 3
\* most object versions, and most delete markers, a deleteAll listing holds
MaxVersions == 2
MaxMarkers == 1

------------------------------------------------------------------------------
(* Values *)

\* JavaScript values of the kinds the dryrun control takes
JSUndefined == [type |-> "undefined"]
JSBool(b) == [type |-> "boolean", b |-> b]
JSString(s) == [type |-> "string", s |-> s]

Undefined == 0
Pending == -1

EnvChars == {"f", "F", "a", "l", "s", "e", "E", "x"}

InstallationIds == {"i1", "i2"}
Filesources == <<"fs1", "fs2">>
BackupNames == <<"b1", "b2", "b3", "b4">>
Dates == 1..MaxDate

Max(a, b) == IF a >= b THEN a ELSE b
Min(a, b) == IF a <= b THEN a ELSE b

------------------------------------------------------------------------------
(* purgeScript.js lines 9-19: the dryrun control *)

\* a variant that leaves the case as it is
ToLowerChar_Identity(c) == c

\* String.prototype.toLowerCase, one character
ToLowerChar(c) ==
    CASE c = "F" -> "f"
      [] c = "A" -> "a"
      [] c = "L" -> "l"
      [] c = "S" -> "s"
      [] c = "E" -> "e"
      [] OTHER -> c

toLowerCase(s) == [k \in 1..Len(s) |-> ToLowerChar(s[k])]

\* JavaScript truthiness: undefined and the empty string are falsy
Truthy(v) ==
    CASE v.type = "boolean" -> v.b
      [] v.type = "string" -> v.s # <<>>
      [] OTHER -> FALSE

\* line 10: let dryrun = process.env.DRYRUN || true
EnvOrTrue(env) == IF Truthy(env) THEN env ELSE JSBool(TRUE)

\* lines 12-19: a string is lower-cased and compared with 'false'
ParseDryrun(env) ==
    LET v == EnvOrTrue(env) IN
    IF v.type = "string"
    THEN IF toLowerCase(v.s) = <<"f", "a", "l", "s", "e">>
         THEN JSBool(FALSE)
         ELSE JSBool(TRUE)
    ELSE v

------------------------------------------------------------------------------
(* purgeScript.js lines 57-103: partition, sort and split of the backup objects *)

RemoveAt(s, i) == [k \in 1..(Len(s) - 1) |-> IF k < i THEN s[k] ELSE s[k + 1]]

\* lines 61-68: backupObjects.forEach(function (o, i) {... backupObjects.splice(i, 1) ...}).
\* Array.prototype.forEach visits the indices 0..len-1 of the length the array had
\* when the loop began and skips an index the array no longer has; the callback
\* splices the array it is iterating over.  i is the 1-based index, len the
\* initial length, dry is dryrun !== false.
RECURSIVE ForEachSplice(_, _, _, _, _)
ForEachSplice(objs, keep, i, len, dry) ==
    IF i > len
    THEN [objs |-> objs, keep |-> keep]
    ELSE IF i > Len(objs)
    THEN ForEachSplice(objs, keep, i + 1, len, dry)
    ELSE IF objs[i].date = Undefined
    THEN ForEachSplice(RemoveAt(objs, i),
                       IF dry THEN Append(keep, objs[i]) ELSE keep,
                       i + 1, len, dry)
    ELSE ForEachSplice(objs, keep, i + 1, len, dry)

\* lines 78-95: date.getTime(), or Infinity when date is undefined (getTime
\* throws) or invalid.  Infinity is a value above every date.
Infinity == MaxDate + 1
DateKey(o) == IF o.date = Undefined THEN Infinity ELSE o.date

\* line 96: return dateA - dateB, as the sign the sort reads; Infinity - Infinity
\* is NaN, which Array.prototype.sort reads as 0.
Compare(a, b) ==
    LET dateA == DateKey(a)
        dateB == DateKey(b)
    IN  IF dateA = Infinity /\ dateB = Infinity THEN 0
        ELSE IF dateA < dateB THEN -1
        ELSE IF dateA > dateB THEN 1
        ELSE 0

\* Array.prototype.sort is stable: x goes after every element that does not
\* compare greater than it.
InsertSorted(sorted, x) ==
    LET after == {k \in 1..Len(sorted) : Compare(sorted[k], x) > 0}
        pos == IF after = {} THEN Len(sorted) + 1
               ELSE CHOOSE k \in after : \A j \in after : k <= j
    IN  [k \in 1..(Len(sorted) + 1) |->
            IF k < pos THEN sorted[k]
            ELSE IF k = pos THEN x
            ELSE sorted[k - 1]]

RECURSIVE SortFrom(_, _, _)
SortFrom(objs, k, sorted) ==
    IF k > Len(objs) THEN sorted
    ELSE SortFrom(objs, k + 1, InsertSorted(sorted, objs[k]))

\* a variant that leaves the listing order
Sort_Unsorted(objs) == objs

\* lines 77-97: backupObjects.sort(comparator)
Sort(objs) == SortFrom(objs, 1, <<>>)

\* line 100: backupObjects.slice(0, -quantity)
SliceHead(objs, q) == SubSeq(objs, 1, Max(Len(objs) - q, 0))

\* line 102: backupObjects.slice(-quantity)
SliceTail(objs, q) == SubSeq(objs, Max(Len(objs) - q, 0) + 1, Len(objs))

\* a variant whose path lacks the 'backups/' prefix
Task_NameOnly(currentInstallation, currentBackup) ==
    [currentInstallation |-> currentInstallation,
     path |-> currentBackup.name,
     filesource |-> currentBackup.filesource]

\* lines 127-129: the task of one backup to delete
Task(currentInstallation, currentBackup) ==
    [currentInstallation |-> currentInstallation,
     path |-> "backups/" \o currentBackup.name,
     filesource |-> currentBackup.filesource]

\* a variant that fills deleteBackups whatever dryrun is
DeleteBackups_IgnoringDryrun(currentInstallation, toDelete, dr) ==
    [k \in 1..Len(toDelete) |-> Task(currentInstallation, toDelete[k])]

\* lines 125-131: deleteBackups, filled in live mode only
DeleteBackups(currentInstallation, toDelete, dr) ==
    IF dr = JSBool(FALSE)
    THEN [k \in 1..Len(toDelete) |-> Task(currentInstallation, toDelete[k])]
    ELSE <<>>

------------------------------------------------------------------------------
(* purgeScript.js: the run *)

\* every value process.env.DRYRUN takes in DryrunSpec
EnvValues ==
    {JSUndefined} \cup
    {JSString(s) : s \in UNION {[1..k -> EnvChars] : k \in 0..MaxEnvLen}}

\* the two settings the purge run is explored under: unset, and 'False'
PurgeEnvs == {JSUndefined, JSString(<<"F", "a", "l", "s", "e">>)}

\* no deleteAll call under way
DaIdle ==
    [phase |-> "idle", connector |-> "s3", folder |-> "", shared |-> FALSE,
     versions |-> 0, markers |-> 0, items |-> <<>>, taskState |-> <<>>,
     itemsDeletedCount |-> 0, failedItems |-> <<>>,
     promise |-> "pending", result |-> "none", resultCount |-> 0, resultFailed |-> <<>>,
     settles |-> 0, drainCalls |-> 0, unhandled |-> 0, exited |-> FALSE,
     relist |-> "none", remaining |-> "unknown",
     bucketDelete |-> "none", bucketDeleteCalls |-> 0]

\* no batch, transfer, listing or date calculation under way
QueueIdle ==
    [phase |-> "idle", kind |-> "delete", submitted |-> 0, queued |-> 0,
     running |-> 0, hung |-> 0, started |-> 0, completed |-> 0, failed |-> 0,
     drainCalls |-> 0, exited |-> FALSE]
TransferIdle ==
    [phase |-> "idle", connector |-> "s3", filesObject |-> [public |-> <<>>, private |-> <<>>],
     sourceV2 |-> FALSE, destinationV2 |-> FALSE,
     copyCommands |-> <<>>, taskState |-> <<>>, copyFailed |-> {},
     promise |-> "pending", settles |-> 0, drainCalls |-> 0]
ListingIdle ==
    [phase |-> "idle", content |-> <<>>, pageSize |-> 1, truncated |-> TRUE,
     KeyMarker |-> 0, Versions |-> <<>>, DeleteMarkers |-> <<>>,
     requests |-> <<>>, failed |-> FALSE, promise |-> "pending",
     connector |-> "s3", error |-> "none", settles |-> 0, getFilesCalls |-> 0]
BackupsIdle ==
    [phase |-> "idle", connector |-> "s3", shared |-> FALSE, content |-> {},
     pageSize |-> 1, KeyMarker |-> 0, requests |-> <<>>, backupsArray |-> <<>>,
     failed |-> FALSE, promise |-> "pending"]
DateIdle ==
    [phase |-> "idle", backupName |-> <<>>, promise |-> "pending",
     date |-> [type |-> "undefined"], rejectCalls |-> 0,
     backupObject |-> [type |-> "undefined"]]

DeleteVersionIdle ==
    [phase |-> "idle", bucketName |-> "", filePath |-> "", versionId |-> "",
     bucket |-> [type |-> "absent"], requests |-> <<>>, response |-> "none",
     promise |-> "pending", settles |-> 0]
DispatchIdle ==
    [phase |-> "idle", operation |-> "", provider |-> "", product |-> "",
     destinationProvider |-> "", destinationProduct |-> "",
     sourceProvider |-> "", sourceProduct |-> "",
     connectorCalls |-> <<>>, transferCalls |-> 0,
     promise |-> "pending", error |-> <<>>, settles |-> 0]
RetryIdle ==
    [phase |-> "idle", helper |-> "", retries |-> 0, attempts |-> <<>>,
     timers |-> <<>>, promise |-> "pending", error |-> 0, settles |-> 0]
FolderIdle ==
    [phase |-> "idle", connector |-> "s3", name |-> <<>>, stored |-> {},
     folder |-> <<>>, listed |-> {}, deleted |-> {}]
UtilIdle ==
    /\ batch = QueueIdle
    /\ tr = TransferIdle
    /\ lv = ListingIdle
    /\ lb = BackupsIdle
    /\ cd = DateIdle
    /\ dov = DeleteVersionIdle
    /\ dp = DispatchIdle
    /\ rt = RetryIdle
    /\ pd = FolderIdle

PurgeInit(envs, quantities, insts) ==
    /\ DRYRUN \in envs
    /\ dryrun = JSUndefined
    /\ quantity \in quantities
    /\ consul = insts
    /\ pc = "load"
    /\ installations = <<>>
    /\ instIdx = 0
    /\ fsIdx = 0
    /\ listCalls = {}
    /\ listFailed = {}
    /\ exited = FALSE
    /\ promises = [i \in InstallationIds |-> <<>>]
    /\ stage = [i \in InstallationIds |-> "idle"]
    /\ backupsToDelete = [i \in InstallationIds |-> <<>>]
    /\ backupsToKeep = [i \in InstallationIds |-> <<>>]
    /\ tasks = [i \in InstallationIds |-> <<>>]
    /\ taskState = [i \in InstallationIds |-> <<>>]
    /\ deleteAllCalls = [i \in InstallationIds |-> <<>>]
    /\ dryLog = [i \in InstallationIds |-> <<>>]
    /\ purgeComplete = [i \in InstallationIds |-> 0]

\* lines 9-22: the module-level code; it ends by calling getInstallationIdList
LoadScript ==
    /\ ~exited
    /\ pc = "load"
    /\ dryrun' = ParseDryrun(DRYRUN)
    /\ pc' = "installations"
    /\ UNCHANGED <<DRYRUN, quantity, consul, installations, instIdx, fsIdx, listCalls,
                   promises, stage, backupsToDelete, backupsToKeep, tasks, taskState,
                   deleteAllCalls, dryLog, purgeComplete,
                   listFailed, exited, da, utilVars>>

\* line 22: getInstallationIdList resolved; line 24 calls getClusterConfig
GetInstallationIdListResolve ==
    /\ ~exited
    /\ pc = "installations"
    /\ installations' = consul
    /\ pc' = "config"
    /\ UNCHANGED <<DRYRUN, dryrun, quantity, consul, instIdx, fsIdx, listCalls,
                   promises, stage, backupsToDelete, backupsToKeep, tasks, taskState,
                   deleteAllCalls, dryLog, purgeComplete,
                   listFailed, exited, da, utilVars>>

\* lines 154-156: getInstallationIdList rejected, the run ends
GetInstallationIdListReject ==
    /\ ~exited
    /\ pc = "installations"
    /\ pc' = "failed"
    /\ UNCHANGED <<DRYRUN, dryrun, quantity, consul, installations, instIdx, fsIdx,
                   listCalls, promises, stage, backupsToDelete, backupsToKeep, tasks,
                   taskState, deleteAllCalls, dryLog, purgeComplete,
                   listFailed, exited, da, utilVars>>

\* lines 24-36: getClusterConfig resolved; the loops begin and the first
\* listBackups call is awaited
GetClusterConfigResolve ==
    /\ ~exited
    /\ pc = "config"
    /\ IF installations = <<>>
       THEN /\ pc' = "done"
            /\ UNCHANGED <<instIdx, fsIdx, listCalls, stage>>
       ELSE /\ pc' = "list"
            /\ instIdx' = 1
            /\ fsIdx' = 1
            /\ listCalls' = listCalls \cup {<<installations[1], Filesources[1]>>}
            /\ stage' = [stage EXCEPT ![installations[1]] = "listing"]
    /\ UNCHANGED <<DRYRUN, dryrun, quantity, consul, installations, promises,
                   backupsToDelete, backupsToKeep, tasks, taskState, deleteAllCalls,
                   dryLog, purgeComplete,
                   listFailed, exited, da, utilVars>>

\* lines 151-153: getClusterConfig rejected, the run ends
GetClusterConfigReject ==
    /\ ~exited
    /\ pc = "config"
    /\ pc' = "failed"
    /\ UNCHANGED <<DRYRUN, dryrun, quantity, consul, installations, instIdx, fsIdx,
                   listCalls, promises, stage, backupsToDelete, backupsToKeep, tasks,
                   taskState, deleteAllCalls, dryLog, purgeComplete,
                   listFailed, exited, da, utilVars>>

\* lines 34-57, after the awaited listBackups settled: the next filesource is
\* listed; after the last one Promise.all(promises).then is registered (not
\* awaited) and the loop goes on to the next installation.
AdvanceLoop ==
    LET cur == installations[instIdx] IN
    IF fsIdx < Len(Filesources)
    THEN /\ fsIdx' = fsIdx + 1
         /\ listCalls' = listCalls \cup {<<cur, Filesources[fsIdx + 1]>>}
         /\ UNCHANGED <<pc, instIdx, stage>>
    ELSE IF instIdx < Len(installations)
    THEN /\ instIdx' = instIdx + 1
         /\ fsIdx' = 1
         /\ listCalls' = listCalls \cup {<<installations[instIdx + 1], Filesources[1]>>}
         /\ stage' = [stage EXCEPT ![cur] = "waiting",
                                   ![installations[instIdx + 1]] = "listing"]
         /\ UNCHANGED pc
    ELSE /\ pc' = "done"
         /\ stage' = [stage EXCEPT ![cur] = "waiting"]
         /\ UNCHANGED <<instIdx, fsIdx, listCalls>>

\* lines 36-50: listBackups resolved with n backup names; one promise per name
\* is pushed, its calculateDate call under way
ListBackupsResolve(n) ==
    /\ ~exited
    /\ pc = "list"
    /\ Len(promises[installations[instIdx]]) + n <= MaxBackups
    /\ LET cur == installations[instIdx]
           new == [k \in 1..n |-> [name |-> BackupNames[k], date |-> Pending,
                                   filesource |-> Filesources[fsIdx]]]
       IN  promises' = [promises EXCEPT ![cur] = @ \o new]
    /\ AdvanceLoop
    /\ UNCHANGED <<DRYRUN, dryrun, quantity, consul, installations, backupsToDelete,
                   backupsToKeep, tasks, taskState, deleteAllCalls, dryLog,
                   purgeComplete,
                   listFailed, exited, da, utilVars>>

\* lines 51-53: listBackups rejected; logged, the loop goes on
ListBackupsReject ==
    /\ ~exited
    /\ pc = "list"
    /\ listFailed' = listFailed \cup {<<installations[instIdx], Filesources[fsIdx]>>}
    /\ AdvanceLoop
    /\ UNCHANGED <<DRYRUN, dryrun, quantity, consul, installations, promises,
                   backupsToDelete, backupsToKeep, tasks, taskState, deleteAllCalls,
                   dryLog, purgeComplete,
                   exited, da, utilVars>>

PendingDates(i) == {k \in 1..Len(promises[i]) : promises[i][k].date = Pending}

\* lines 43-48: a calculateDate call settled: resolved with date d, or rejected
\* (d = Undefined).  The promises settle in array order here: Promise.all keeps
\* the array order whatever the order of settlement.
CalculateDateSettle(i, d) ==
    /\ ~exited
    /\ PendingDates(i) # {}
    /\ LET k == CHOOSE k \in PendingDates(i) : \A j \in PendingDates(i) : k <= j
       IN  promises' = [promises EXCEPT ![i][k].date = d]
    /\ UNCHANGED <<DRYRUN, dryrun, quantity, consul, pc, installations, instIdx, fsIdx,
                   listCalls, stage, backupsToDelete, backupsToKeep, tasks, taskState,
                   deleteAllCalls, dryLog, purgeComplete,
                   listFailed, exited, da, utilVars>>

\* line 117: the concurrency of the purge's itemQueue
PurgeQueueLimit == 10

\* line 71: if((backupObjects.length) <= quantity)
NotEnoughBackups(objs, q) == Len(objs) <= q

\* lines 134-137: the 'Delete: ' lines of a dry run
DryDeleteLines(toDelete, dr) ==
    IF dr # JSBool(FALSE)
    THEN [k \in 1..Len(toDelete) |->
            [name |-> toDelete[k].name, filesource |-> toDelete[k].filesource]]
    ELSE <<>>

\* lines 57-145: every date calculation of installation i settled, the
\* Promise.all handler runs
PromiseAllThen(i) ==
    /\ ~exited
    /\ stage[i] = "waiting"
    /\ PendingDates(i) = {}
    /\ LET dry == dryrun # JSBool(FALSE)
           part == ForEachSplice(promises[i], <<>>, 1, Len(promises[i]), dry)
           sorted == Sort(part.objs)
           toDelete == SliceHead(sorted, quantity)
           deleteBackups == DeleteBackups(i, toDelete, dryrun)
       IN  IF NotEnoughBackups(part.objs, quantity)
           THEN /\ stage' = [stage EXCEPT ![i] = "skipped"]
                /\ backupsToKeep' = [backupsToKeep EXCEPT ![i] = part.keep]
                /\ UNCHANGED <<backupsToDelete, tasks, taskState, dryLog>>
           ELSE /\ stage' = [stage EXCEPT ![i] = "pushed"]
                /\ backupsToDelete' = [backupsToDelete EXCEPT ![i] = toDelete]
                /\ backupsToKeep' = [backupsToKeep EXCEPT ![i] =
                        IF dry THEN part.keep \o SliceTail(sorted, quantity)
                        ELSE part.keep]
                /\ tasks' = [tasks EXCEPT ![i] = deleteBackups]
                /\ taskState' = [taskState EXCEPT ![i] =
                        [k \in 1..Len(deleteBackups) |-> "queued"]]
                /\ dryLog' = [dryLog EXCEPT ![i] = DryDeleteLines(toDelete, dryrun)]
    /\ UNCHANGED <<DRYRUN, dryrun, quantity, consul, pc, installations, instIdx, fsIdx,
                   listCalls, promises, deleteAllCalls, purgeComplete,
                   listFailed, exited, da, utilVars>>

\* workers whose task has not called done(): running, or in flight for good
Running(st) == {k \in 1..Len(st) : st[k] = "running"}
InFlight(st) == {k \in 1..Len(st) : st[k] \in {"running", "hung"}}
Queued(st) == {k \in 1..Len(st) : st[k] = "queued"}

\* async.queue's process(): workers are started in FIFO order while fewer than
\* limit are running
ToStart(st, limit) ==
    {k \in Queued(st) :
        Cardinality({j \in Queued(st) : j < k}) < limit - Cardinality(InFlight(st))}

Started(st, limit) ==
    [k \in 1..Len(st) |-> IF k \in ToStart(st, limit) THEN "running" ELSE st[k]]

\* lines 109-110: the tasks whose worker starts, each calling FileUtils.deleteAll
RECURSIVE StartedCalls(_, _, _)
StartedCalls(ts, idx, k) ==
    IF k > Len(ts) THEN <<>>
    ELSE (IF k \in idx THEN <<ts[k]>> ELSE <<>>) \o StartedCalls(ts, idx, k + 1)

\* lines 109-122, 145: the queue processes what itemQueue.push queued, on the
\* next tick: it starts the workers, or, for an empty push, signals drain
QueueProcess(i) ==
    /\ ~exited
    /\ stage[i] = "pushed"
    /\ IF tasks[i] = <<>>
       THEN /\ stage' = [stage EXCEPT ![i] = "drained"]
            /\ purgeComplete' = [purgeComplete EXCEPT ![i] = @ + 1]
            /\ UNCHANGED <<taskState, deleteAllCalls>>
       ELSE /\ stage' = [stage EXCEPT ![i] = "running"]
            /\ taskState' = [taskState EXCEPT ![i] = Started(@, PurgeQueueLimit)]
            /\ deleteAllCalls' = [deleteAllCalls EXCEPT ![i] =
                    @ \o StartedCalls(tasks[i], ToStart(taskState[i], PurgeQueueLimit), 1)]
            /\ UNCHANGED purgeComplete
    /\ UNCHANGED <<DRYRUN, dryrun, quantity, consul, pc, installations, instIdx, fsIdx,
                   listCalls, promises, backupsToDelete, backupsToKeep, tasks, dryLog,
                   listFailed, exited, da, utilVars>>

\* lines 110-116: the deleteAll call of task k settled; resolved or rejected,
\* the worker logs and calls done(): the queue signals drain when nothing is
\* left, and starts the next queued task
DeleteAllSettle(i, k) ==
    /\ ~exited
    /\ stage[i] = "running"
    /\ k \in Running(taskState[i])
    /\ LET settled == [taskState[i] EXCEPT ![k] = "done"]
       IN  /\ taskState' = [taskState EXCEPT ![i] = Started(settled, PurgeQueueLimit)]
           /\ deleteAllCalls' = [deleteAllCalls EXCEPT ![i] =
                    @ \o StartedCalls(tasks[i], ToStart(settled, PurgeQueueLimit), 1)]
           /\ IF InFlight(settled) = {} /\ Queued(settled) = {}
              THEN /\ stage' = [stage EXCEPT ![i] = "drained"]
                   /\ purgeComplete' = [purgeComplete EXCEPT ![i] = @ + 1]
              ELSE UNCHANGED <<stage, purgeComplete>>
    /\ UNCHANGED <<DRYRUN, dryrun, quantity, consul, pc, installations, instIdx, fsIdx,
                   listCalls, promises, backupsToDelete, backupsToKeep, tasks, dryLog,
                   listFailed, exited, da, utilVars>>

\* file-management-utils.js lines 574-580 and 958-964, seen from the purge: a
\* deleteAll batch in which an object deletion failed ends in a TypeError
\* thrown inside the async drain callback, an unhandled rejection.  deleteAll's
\* promise is then never settled and done() never called; node either goes on
\* (the task stays in flight for good) or, from version 15 on, ends the process.
DeleteAllDrainThrows(i, k, exit) ==
    /\ ~exited
    /\ stage[i] = "running"
    /\ k \in Running(taskState[i])
    /\ taskState' = [taskState EXCEPT ![i][k] = "hung"]
    /\ exited' = exit
    /\ UNCHANGED <<DRYRUN, dryrun, quantity, consul, pc, installations, instIdx, fsIdx,
                   listCalls, promises, stage, backupsToDelete, backupsToKeep, tasks,
                   deleteAllCalls, dryLog, purgeComplete, listFailed, da, utilVars>>

PurgeNext(maxList) ==
    \/ LoadScript
    \/ GetInstallationIdListResolve
    \/ GetInstallationIdListReject
    \/ GetClusterConfigResolve
    \/ GetClusterConfigReject
    \/ \E n \in 0..maxList : ListBackupsResolve(n)
    \/ ListBackupsReject
    \/ \E i \in InstallationIds, d \in Dates \cup {Undefined} : CalculateDateSettle(i, d)
    \/ \E i \in InstallationIds : PromiseAllThen(i)
    \/ \E i \in InstallationIds : QueueProcess(i)
    \/ \E i \in InstallationIds, k \in 1..MaxBackups : DeleteAllSettle(i, k)
    \/ \E i \in InstallationIds, k \in 1..MaxBackups, exit \in BOOLEAN :
            DeleteAllDrainThrows(i, k, exit)

Next == PurgeNext(MaxList)
RunNext == PurgeNext(MaxListRun)

\* the purge of one installation
Init == PurgeInit(PurgeEnvs, 1..MaxQuantity, <<"i1">>) /\ da = DaIdle /\ UtilIdle
Spec == Init /\ [][Next]_vars

\* the purge of two installations, with shorter listings
RunInit == PurgeInit(PurgeEnvs, 1..MaxQuantity, <<"i1", "i2">>) /\ da = DaIdle /\ UtilIdle
RunSpec == RunInit /\ [][RunNext]_vars

\* the module-level code alone, over every DRYRUN value
DryrunInit == PurgeInit(EnvValues, {1}, <<"i1">>) /\ da = DaIdle /\ UtilIdle
DryrunNext == LoadScript
DryrunSpec == DryrunInit /\ [][DryrunNext]_vars

------------------------------------------------------------------------------
(* file-management-utils.js: deleteAll of the GCS connector (lines 530-601) and
   of the S3 connector (lines 915-996) *)

\* lines 555 and 936: the concurrency of deleteAll's itemQueue
DeleteQueueLimit == 100

Connectors == {"gcs", "s3"}
Folders == {"", "backups/b1"}

\* a variant that leaves the delete markers out
Items_VersionsOnly(versions, markers) ==
    [k \in 1..versions |-> [kind |-> "version", n |-> k]]

\* lines 584-589 and 968-981: one task per listed object version, then one per
\* listed delete marker (a GCS listing holds no delete markers)
Items(versions, markers) ==
    [k \in 1..(versions + markers) |->
        IF k <= versions THEN [kind |-> "version", n |-> k]
        ELSE [kind |-> "marker", n |-> k - versions]]

\* resolve(...) or reject(...): only the first call settles the promise
Settle(d, how, result) ==
    IF d.promise = "pending"
    THEN [d EXCEPT !.promise = how, !.result = result, !.settles = @ + 1,
                   !.resultCount = d.itemsDeletedCount,
                   !.resultFailed = IF result = "failedItems" THEN d.failedItems ELSE <<>>]
    ELSE d

\* lines 574-580 and 958-964, the end of the drain callback: with no failed item
\* the promise is resolved with the count; otherwise the message is built with
\* failedItems.substring(0, 10), and failedItems is an array: a TypeError is
\* thrown inside the async callback before reject is reached, which leaves an
\* unhandled rejection and, if node ends the process on it, nothing more runs.
DrainResult(d, exit) ==
    IF d.failedItems = <<>>
    THEN Settle(d, "resolved", "deleted")
    ELSE [d EXCEPT !.unhandled = @ + 1, !.exited = exit]

\* lines 558-581 and 939-965: the drain callback: for the bucket root the
\* listing is started again, then the promise is settled
Drain(d, exit) ==
    DrainResult([d EXCEPT !.phase = "drained",
                          !.drainCalls = @ + 1,
                          !.relist = IF d.folder = "" THEN "pending" ELSE @],
                exit)

\* lines 530-538 and 915-919: deleteAll is called; listFileVersions is under way
DeleteAllCall(connector, folder, shared) ==
    /\ da.phase = "idle"
    /\ connector = "gcs" => ~shared
    /\ da' = [da EXCEPT !.phase = "listing", !.connector = connector,
                        !.folder = folder, !.shared = shared]
    /\ UNCHANGED <<purgeVars, utilVars>>

\* lines 538-592 and 919-984: the listing resolved with the given numbers of
\* object versions and delete markers; the tasks are pushed to the queue
ListFileVersionsResolve(versions, markers) ==
    /\ ~da.exited
    /\ da.phase = "listing"
    /\ da.connector = "gcs" => markers = 0
    /\ LET items == Items(versions, markers)
       IN  da' = [da EXCEPT !.phase = "pushed", !.versions = versions,
                            !.markers = markers, !.items = items,
                            !.taskState = [k \in 1..Len(items) |-> "queued"]]
    /\ UNCHANGED <<purgeVars, utilVars>>

\* lines 594-596 and 986-991: the listing (or, for S3, getClient) rejected
ListFileVersionsReject ==
    /\ ~da.exited
    /\ da.phase = "listing"
    /\ da' = Settle([da EXCEPT !.phase = "listFailed"], "rejected", "error")
    /\ UNCHANGED <<purgeVars, utilVars>>

\* the queue processes the push on the next tick: it starts the workers, or,
\* for an empty push, signals drain
DaQueueProcess ==
    /\ ~da.exited
    /\ da.phase = "pushed"
    /\ da' = IF da.items = <<>>
             THEN Drain(da, FALSE)
             ELSE [da EXCEPT !.phase = "running",
                             !.taskState = Started(@, DeleteQueueLimit)]
    /\ UNCHANGED <<purgeVars, utilVars>>

\* lines 546-554 and 927-935: the deleteObjectVersion call of task k settled:
\* the count is incremented, or the item recorded as failed; then done()
TaskDone(d, k, ok) ==
    [d EXCEPT !.taskState[k] = "done",
              !.itemsDeletedCount = IF ok THEN @ + 1 ELSE @,
              !.failedItems = IF ok THEN @ ELSE Append(@, d.items[k])]

DeleteObjectVersionSettle(k, ok, exit) ==
    /\ ~da.exited
    /\ da.phase = "running"
    /\ k \in Running(da.taskState)
    /\ LET d == TaskDone(da, k, ok)
       IN  da' = IF InFlight(d.taskState) = {} /\ Queued(d.taskState) = {}
                 THEN Drain(d, exit)
                 ELSE [d EXCEPT !.taskState = Started(@, DeleteQueueLimit)]
    /\ UNCHANGED <<purgeVars, utilVars>>

\* variants: the bucket is never deleted; it is deleted whether or not it is a
\* folder of a shared bucket
DeletesBucket_Never(d, empty) == FALSE
DeletesBucket_IgnoringShared(d, empty) == empty

\* lines 561-570 and 942-951: the second listing resolved; an empty bucket that
\* is not a folder of a shared bucket (S3, line 945) is deleted
DeletesBucket(d, empty) == empty /\ (d.connector = "gcs" \/ ~d.shared)

RelistResolve(empty) ==
    /\ ~da.exited
    /\ da.relist = "pending"
    /\ LET d == [da EXCEPT !.relist = "resolved",
                           !.remaining = IF empty THEN "zero" ELSE "some"]
       IN  da' = IF DeletesBucket(da, empty)
                 THEN [d EXCEPT !.bucketDelete = "pending",
                                !.bucketDeleteCalls = @ + 1]
                 ELSE d
    /\ UNCHANGED <<purgeVars, utilVars>>

\* lines 952-954: the second listing rejected: S3 rejects the promise, GCS has no
\* handler for it
RelistReject ==
    /\ ~da.exited
    /\ da.relist = "pending"
    /\ da' = IF da.connector = "s3"
             THEN Settle([da EXCEPT !.relist = "rejected"], "rejected", "error")
             ELSE [da EXCEPT !.relist = "rejected", !.unhandled = @ + 1]
    /\ UNCHANGED <<purgeVars, utilVars>>

\* lines 564-568 and 946-950: the bucket deletion settled
DeleteBucketSettle(ok) ==
    /\ ~da.exited
    /\ da.bucketDelete = "pending"
    /\ da' = IF ok
             THEN Settle([da EXCEPT !.bucketDelete = "resolved"], "resolved", "deletedBucket")
             ELSE Settle([da EXCEPT !.bucketDelete = "rejected"], "rejected", "bucketError")
    /\ UNCHANGED <<purgeVars, utilVars>>

DeleteAllInit == PurgeInit({JSUndefined}, {1}, <<>>) /\ da = DaIdle /\ UtilIdle

DeleteAllNext ==
    \/ \E c \in Connectors, f \in Folders, sh \in BOOLEAN : DeleteAllCall(c, f, sh)
    \/ \E v \in 0..MaxVersions, m \in 0..MaxMarkers : ListFileVersionsResolve(v, m)
    \/ ListFileVersionsReject
    \/ DaQueueProcess
    \/ \E k \in 1..(MaxVersions + MaxMarkers), ok \in BOOLEAN, exit \in BOOLEAN :
            DeleteObjectVersionSettle(k, ok, exit)
    \/ \E empty \in BOOLEAN : RelistResolve(empty)
    \/ RelistReject
    \/ \E ok \in BOOLEAN : DeleteBucketSettle(ok)

\* one deleteAll call of either connector
DeleteAllSpec == DeleteAllInit /\ [][DeleteAllNext]_vars

------------------------------------------------------------------------------
(* file-management-utils.js: transferBackupFiles of the GCS connector (lines
   612-699) and of the S3 connector (lines 1007-1087) *)

\* lines 653 and 1037: the concurrency of transferBackupFiles' itemQueue
CopyQueueLimit == 25

ObjectKeys == {"a", "b"}
VersionIds == <<"v1", "v2">>

\* the IsLatest property of a manifest entry: true, false, or not there
LatestFlags == {JSBool(TRUE), JSBool(FALSE), JSUndefined}

\* the entries of a manifest: for S3 an object version with its IsLatest flag;
\* for GCS a file (name) with its generation (the index of VersionId)
ManifestObjects ==
    [Key : ObjectKeys, VersionId : 1..Len(VersionIds), IsLatest : LatestFlags]

Manifests ==
    UNION {[1..n -> ManifestObjects] : n \in 0..MaxObjects}

\* the two installations of a transfer, and the shared buckets their
\* credentials name (credentials.bucket of a version 2 filesource)
SourceInstallationId == "src"
DestinationInstallationId == "dst"
SourceBucket == "srcshared"
DestinationBucket == "dstshared"

\* lines 1011-1013 and 615-617: public entries followed by private ones
AllObjects(filesObject) == filesObject.public \o filesObject.private

\* lines 1054-1058: the copy source, under the shared bucket for a v2 source
CopySource(sourceV2, obj) ==
    (IF sourceV2 THEN SourceBucket \o "/" \o SourceInstallationId \o "/"
                 ELSE SourceInstallationId \o "/")
        \o obj.Key \o "?versionId=" \o VersionIds[obj.VersionId]

\* copy parameters that place the object as for a destination without a
\* shared bucket, whatever the destination (not what the code does)
CopyParameters_Unshared(sourceV2, destinationV2, obj) ==
    [CopySource |-> CopySource(sourceV2, obj),
     Bucket |-> DestinationInstallationId,
     Key |-> obj.Key]

\* lines 1061-1072: the copy parameters of one object version
CopyParameters(sourceV2, destinationV2, obj) ==
    [CopySource |-> CopySource(sourceV2, obj),
     Bucket |-> IF destinationV2 THEN DestinationBucket ELSE DestinationInstallationId,
     Key |-> IF destinationV2 THEN DestinationInstallationId \o "/" \o obj.Key
                              ELSE obj.Key]

\* lines 1045-1078: one copy command per entry that is not flagged as not the
\* latest, in manifest order
RECURSIVE S3CopyCommands(_, _, _)
S3CopyCommands(sourceV2, destinationV2, objs) ==
    IF objs = <<>> THEN <<>>
    ELSE (IF Head(objs).IsLatest = JSBool(FALSE)
          THEN <<>>
          ELSE <<CopyParameters(sourceV2, destinationV2, Head(objs))>>)
         \o S3CopyCommands(sourceV2, destinationV2, Tail(objs))

\* lines 660-682: compareObject's keys, in the order they were first seen
RECURSIVE CompareKeys(_, _)
CompareKeys(objs, seen) ==
    IF objs = <<>> THEN <<>>
    ELSE IF Head(objs).Key \in seen
         THEN CompareKeys(Tail(objs), seen)
         ELSE <<Head(objs).Key>> \o CompareKeys(Tail(objs), seen \cup {Head(objs).Key})

\* the generation of the last entry of a file path (not what the code keeps)
LatestGeneration_LastSeen(objs, key) ==
    objs[CHOOSE k \in 1..Len(objs) :
            objs[k].Key = key /\ \A j \in (k + 1)..Len(objs) : objs[j].Key # key].VersionId

\* lines 671-677: the highest generation seen for a file path
LatestGeneration(objs, key) ==
    CHOOSE g \in {objs[k].VersionId : k \in {j \in 1..Len(objs) : objs[j].Key = key}} :
        \A k \in 1..Len(objs) : objs[k].Key = key => objs[k].VersionId <= g

\* lines 685-689: one copy command per file path, for its highest generation
GcsCopyCommands(objs) ==
    LET keys == CompareKeys(objs, {})
    IN  [k \in 1..Len(keys) |->
            [filePath |-> keys[k], versionId |-> LatestGeneration(objs, keys[k])]]

\* resolve(...) or reject(...) of the transfer's promise: the first call settles
TrSettle(t, how) ==
    IF t.promise = "pending"
    THEN [t EXCEPT !.promise = how, !.settles = @ + 1]
    ELSE t

\* lines 656-658 and 1040-1042: the drain callback resolves the promise
TrDrain(t) ==
    TrSettle([t EXCEPT !.phase = "drained", !.drainCalls = @ + 1], "resolved")

\* a variant that resolves the promise as soon as the commands are pushed
TrPush_Resolving(t, commands) ==
    TrSettle([t EXCEPT !.phase = "pushed", !.copyCommands = commands,
                       !.taskState = [k \in 1..Len(commands) |-> "queued"]],
             "resolved")

\* lines 692 and 1081: the copy commands are pushed into the queue at once
TrPush(t, commands) ==
    [t EXCEPT !.phase = "pushed", !.copyCommands = commands,
              !.taskState = [k \in 1..Len(commands) |-> "queued"]]

\* lines 1007-1086 and 612-698, up to the first wait: a manifest without its
\* two lists throws and the promise is rejected; S3 builds and pushes the copy
\* commands; GCS first asks whether the source bucket exists
TransferCall(connector, filesObject, sourceV2, destinationV2, malformed) ==
    /\ tr.phase = "idle"
    /\ malformed => filesObject = [public |-> <<>>, private |-> <<>>]
    /\ connector = "gcs" =>
            /\ ~sourceV2 /\ ~destinationV2
            /\ \A k \in 1..Len(AllObjects(filesObject)) :
                  AllObjects(filesObject)[k].IsLatest = JSUndefined
    /\ LET t == [tr EXCEPT !.connector = connector, !.filesObject = filesObject,
                           !.sourceV2 = sourceV2, !.destinationV2 = destinationV2]
       IN  tr' = IF malformed
                 THEN TrSettle([t EXCEPT !.phase = "failed"], "rejected")
                 ELSE IF connector = "s3"
                      THEN TrPush(t, S3CopyCommands(sourceV2, destinationV2,
                                                   AllObjects(filesObject)))
                      ELSE [t EXCEPT !.phase = "sourceExists"]
    /\ UNCHANGED <<purgeVars, da, batch, lv, lb, cd, moreVars>>

\* lines 625-630: the answer about the source bucket
SourceExists(found) ==
    /\ tr.phase = "sourceExists"
    /\ tr' = IF found
             THEN [tr EXCEPT !.phase = "destinationExists"]
             ELSE TrSettle([tr EXCEPT !.phase = "failed"], "rejected")
    /\ UNCHANGED <<purgeVars, da, batch, lv, lb, cd, moreVars>>

\* lines 633-692: the answer about the destination bucket; the copy commands are
\* built and pushed
DestinationExists(found) ==
    /\ tr.phase = "destinationExists"
    /\ tr' = IF found
             THEN TrPush(tr, GcsCopyCommands(AllObjects(tr.filesObject)))
             ELSE TrSettle([tr EXCEPT !.phase = "failed"], "rejected")
    /\ UNCHANGED <<purgeVars, da, batch, lv, lb, cd, moreVars>>

\* the queue processes the push on the next tick: it starts the workers, or,
\* for an empty push, signals drain
TrQueueProcess ==
    /\ tr.phase = "pushed"
    /\ tr' = IF tr.copyCommands = <<>>
             THEN TrDrain(tr)
             ELSE [tr EXCEPT !.phase = "running",
                             !.taskState = Started(@, CopyQueueLimit)]
    /\ UNCHANGED <<purgeVars, da, batch, lv, lb, cd, moreVars>>

\* a variant in which a failed copy rejects the transfer
CopyFailure_Rejecting(t, ok) ==
    IF ok THEN t ELSE TrSettle(t, "rejected")

\* lines 648-651 and 1033-1036: a failed copy is logged and nothing else
CopyFailure(t, ok) == t

\* lines 646-651 and 1031-1036: the copy of task k settled; a failure is logged;
\* done() is called either way
CopySettle(k, ok) ==
    /\ tr.phase = "running"
    /\ k \in Running(tr.taskState)
    /\ LET t == CopyFailure([tr EXCEPT !.taskState[k] = "done",
                                       !.copyFailed = IF ok THEN @ ELSE @ \cup {k}],
                           ok)
       IN  tr' = IF InFlight(t.taskState) = {} /\ Queued(t.taskState) = {}
                 THEN TrDrain(t)
                 ELSE [t EXCEPT !.taskState = Started(@, CopyQueueLimit)]
    /\ UNCHANGED <<purgeVars, da, batch, lv, lb, cd, moreVars>>

TransferNext ==
    \/ /\ tr.phase = "idle"
       /\ \E c \in Connectors, objs \in Manifests, sv \in BOOLEAN, dv \in BOOLEAN,
             bad \in BOOLEAN :
            \E n \in 0..Len(objs) :
                TransferCall(c, [public |-> SubSeq(objs, 1, n),
                                 private |-> SubSeq(objs, n + 1, Len(objs))],
                             sv, dv, bad)
    \/ \E found \in BOOLEAN : SourceExists(found)
    \/ \E found \in BOOLEAN : DestinationExists(found)
    \/ TrQueueProcess
    \/ \E k \in 1..MaxObjects, ok \in BOOLEAN : CopySettle(k, ok)

CallInit ==
    /\ PurgeInit({JSUndefined}, {1}, <<>>)
    /\ da = DaIdle
    /\ UtilIdle

\* one call of a connector: a deleteAll or a transferBackupFiles
CallNext ==
    \/ (tr.phase = "idle" /\ DeleteAllNext)
    \/ (da.phase = "idle" /\ TransferNext)

CallSpec == CallInit /\ [][CallNext]_vars

\* one transferBackupFiles call in which the queue's next tick comes and every
\* copy request is answered
TransferInit == CallInit
TransferFairSpec ==
    /\ TransferInit /\ [][TransferNext]_vars
    /\ WF_vars(TrQueueProcess)
    /\ WF_vars(\E k \in 1..MaxObjects, ok \in BOOLEAN : CopySettle(k, ok))

------------------------------------------------------------------------------
(* file-management-utils.js: listFileVersions of the S3 connector (lines
   713-763), against a provider that lists the entries under the prefix in key
   order, a page at a time *)

\* the entries of key k whose kinds are given, newest first
KeyEntries(k, kinds) ==
    [j \in 1..Len(kinds) |-> [Key |-> k, VersionId |-> j, kind |-> kinds[j]]]

EntryKinds == {"version", "marker"}

\* what is stored under the prefix: for keys 1, 2, ... in key order, the entries
\* of each key
RECURSIVE Contents(_)
Contents(k) ==
    IF k = 0 THEN {<<>>}
    ELSE {c \o KeyEntries(k, kinds) :
            c \in Contents(k - 1),
            kinds \in UNION {[1..n -> EntryKinds] : n \in 0..MaxPerKey}}

IsVersion(e) == e.kind = "version"
IsMarker(e) == e.kind = "marker"

\* the provider: the entries that follow the key marker (0: no marker given; no
\* version-id marker is ever given, so the listing resumes with the next key)
AfterMarker(content, marker) ==
    SelectSeq(content, LAMBDA e : e.Key > marker)

\* the provider's answer: at most pageSize entries, split into Versions and
\* DeleteMarkers (a list that would be empty is left out of the response), and
\* IsTruncated when more entries follow
Response(content, marker, pageSize) ==
    LET rest == AfterMarker(content, marker)
        page == SubSeq(rest, 1, Min(pageSize, Len(rest)))
    IN  [Versions |-> SelectSeq(page, IsVersion),
         DeleteMarkers |-> SelectSeq(page, IsMarker),
         IsTruncated |-> Len(rest) > pageSize]

\* a settling in which a later resolve or reject replaces an earlier one (not
\* what a promise does)
LvSettle_LastWins(l, how, error) ==
    [l EXCEPT !.promise = how, !.error = error, !.settles = @ + 1]

\* resolve / reject of the listing's promise: the first call settles it
LvSettle(l, how, error) ==
    IF l.promise = "pending"
    THEN [l EXCEPT !.promise = how, !.error = error, !.settles = @ + 1]
    ELSE l

\* lines 713-729: the call, up to the first request
ListVersionsCall(content, pageSize) ==
    /\ lv.phase = "idle"
    /\ lv' = [lv EXCEPT !.phase = "listing", !.content = content,
                        !.pageSize = pageSize]
    /\ UNCHANGED <<purgeVars, da, batch, tr, lb, cd, moreVars>>

\* line 749: response.Versions.slice(-1)[0].Key
NextKeyMarker(response) == response.Versions[Len(response.Versions)].Key

\* lines 732-752, one turn of the loop whose request succeeded: the page is
\* added to the result; after a truncated page the key of its last object
\* version becomes the key marker, which throws when the page holds no object
\* version; the throw is caught (lines 753-756) and the promise rejected; when
\* the loop ends the promise is resolved with the result (line 759)
ListVersionsPage ==
    /\ lv.phase = "listing"
    /\ LET response == Response(lv.content, lv.KeyMarker, lv.pageSize)
           l == [lv EXCEPT !.Versions = @ \o response.Versions,
                           !.DeleteMarkers = @ \o response.DeleteMarkers,
                           !.requests = Append(@, lv.KeyMarker),
                           !.truncated = response.IsTruncated]
       IN  lv' = IF ~response.IsTruncated
                 THEN LvSettle([l EXCEPT !.phase = "settled"], "resolved", "none")
                 ELSE IF response.Versions = <<>>
                      THEN LvSettle(LvSettle([l EXCEPT !.phase = "settled",
                                                       !.truncated = FALSE],
                                             "rejected", "TypeError"),
                                    "resolved", "none")
                      ELSE [l EXCEPT !.KeyMarker = NextKeyMarker(response)]
    /\ UNCHANGED <<purgeVars, da, batch, tr, lb, cd, moreVars>>

\* lines 733 and 753-759: the request failed: the catch ends the loop and
\* rejects with the error; resolve(returnObject) is then called with what was
\* accumulated (line 759)
ListVersionsError ==
    /\ lv.phase = "listing"
    /\ lv' = LvSettle(LvSettle([lv EXCEPT !.phase = "settled", !.truncated = FALSE,
                                          !.failed = TRUE,
                                          !.requests = Append(@, lv.KeyMarker)],
                               "rejected", "fetch"),
                      "resolved", "none")
    /\ UNCHANGED <<purgeVars, da, batch, tr, lb, cd, moreVars>>

\* lines 372-379: listFileVersions of the GCS connector asks whether the bucket
\* exists
GcsListVersionsCall ==
    /\ lv.phase = "idle"
    /\ lv' = [lv EXCEPT !.phase = "exists", !.connector = "gcs"]
    /\ UNCHANGED <<purgeVars, da, batch, tr, lb, cd, moreVars>>

\* the answers of bucket.exists: the bucket exists, it does not, or the call
\* failed (an error and no answer)
ExistsAnswers == {"exists", "missing", "error"}

\* lines 379-401: the bucket exists and its files are listed (line 386), or
\* the promise is rejected with the error or with 'Bucket not found!'
GcsBucketExists(answer) ==
    /\ lv.phase = "exists"
    /\ lv' = IF answer = "exists"
             THEN [lv EXCEPT !.phase = "getFiles", !.getFilesCalls = @ + 1]
             ELSE LvSettle([lv EXCEPT !.phase = "settled",
                                      !.failed = (answer = "error")],
                           "rejected",
                           IF answer = "error" THEN "exists" ELSE "Bucket not found!")
    /\ UNCHANGED <<purgeVars, da, batch, tr, lb, cd, moreVars>>

\* lines 386-392: bucket.getFiles answered (resolve) or threw (reject)
GcsGetFiles(ok) ==
    /\ lv.phase = "getFiles"
    /\ lv' = LvSettle([lv EXCEPT !.phase = "settled", !.failed = ~ok],
                      IF ok THEN "resolved" ELSE "rejected",
                      IF ok THEN "none" ELSE "getFiles")
    /\ UNCHANGED <<purgeVars, da, batch, tr, lb, cd, moreVars>>

ListVersionsInit ==
    /\ PurgeInit({JSUndefined}, {1}, <<>>)
    /\ da = DaIdle
    /\ UtilIdle

ListVersionsNext ==
    \/ /\ lv.phase = "idle"
       /\ \E content \in Contents(MaxKeys), pageSize \in 1..MaxPage :
            ListVersionsCall(content, pageSize)
    \/ ListVersionsPage
    \/ ListVersionsError
    \/ GcsListVersionsCall
    \/ \E answer \in ExistsAnswers : GcsBucketExists(answer)
    \/ \E ok \in BOOLEAN : GcsGetFiles(ok)

\* one listFileVersions call of the S3 connector
ListVersionsSpec == ListVersionsInit /\ [][ListVersionsNext]_vars

------------------------------------------------------------------------------
(* file-management-utils.js: listBackups of the GCS connector (lines 411-455)
   and of the S3 connector (lines 771-824) *)

\* the keys a bucket may hold under backups/, split at '/', in key order:
\* 'backups/', 'backups//x', 'backups/b1/f1', 'backups/b1/f2', 'backups/b2/f1'
\* and 'backups/top'
BackupKeys ==
    << <<"backups", "">>,
       <<"backups", "", "x">>,
       <<"backups", "b1", "f1">>,
       <<"backups", "b1", "f2">>,
       <<"backups", "b2", "f1">>,
       <<"backups", "top">> >>

\* lines 781-785: the segments of the listed prefix; in the v2 layout the
\* installation's keys lie under its id in the shared bucket
PrefixSegments(shared) == IF shared THEN <<"i1", "backups">> ELSE <<"backups">>

\* the full key of the object at position n
StoredKey(shared, n) == (IF shared THEN <<"i1">> ELSE <<>>) \o BackupKeys[n]

\* the provider, listing with Delimiter '/': a key with a '/' after the prefix
\* is rolled up into the common prefix that ends at that '/'; any other key is
\* listed as an object version
ListedItem(shared, n) ==
    LET key == StoredKey(shared, n)
        depth == Len(PrefixSegments(shared)) + 1
    IN  IF Len(key) > depth
        THEN [Prefix |-> SubSeq(key, 1, depth), at |-> n]
        ELSE [Key |-> key, at |-> n]

IsCommonPrefix(item) == "Prefix" \in DOMAIN item

\* the items of the listing in key order, each common prefix once
RECURSIVE ListedItems(_, _, _)
ListedItems(shared, content, n) ==
    IF n > Len(BackupKeys) THEN <<>>
    ELSE LET rest == ListedItems(shared, content, n + 1)
             item == ListedItem(shared, n)
         IN  IF n \notin content THEN rest
             ELSE IF /\ IsCommonPrefix(item)
                     /\ rest # <<>>
                     /\ IsCommonPrefix(Head(rest))
                     /\ Head(rest).Prefix = item.Prefix
                  THEN <<[Head(rest) EXCEPT !.at = n]>> \o Tail(rest)
                  ELSE <<item>> \o rest

\* the provider's answer to a request: at most pageSize items that follow the
\* key marker (0: none given), the common prefixes among them (left out of the
\* response when there is none), and IsTruncated when more items follow
BackupsResponse(shared, content, marker, pageSize) ==
    LET rest == SelectSeq(ListedItems(shared, content, 1), LAMBDA i : i.at > marker)
        page == SubSeq(rest, 1, Min(pageSize, Len(rest)))
    IN  [CommonPrefixes |-> SelectSeq(page, IsCommonPrefix),
         IsTruncated |-> Len(rest) > pageSize]

\* lines 796-803: the backup name of each common prefix: the second segment of
\* its Prefix, the third in the v2 layout
BackupNamesOf(shared, prefixes) ==
    LET splitIndex == IF shared THEN 2 ELSE 1
    IN  [k \in 1..Len(prefixes) |-> prefixes[k].Prefix[splitIndex + 1]]

\* line 810: response.CommonPrefixes.slice(-1)[0].Key: an entry of
\* CommonPrefixes has a Prefix and no Key, so this is undefined, and the next
\* request carries no key marker
PageMarker(prefixes) ==
    LET last == prefixes[Len(prefixes)]
    IN  IF "Key" \in DOMAIN last THEN last.at ELSE 0

\* lines 431-433: a file's name without its first 'backups/', up to the next '/'
FilteredName(key) ==
    LET first == CHOOSE k \in 1..Len(key) :
                    /\ key[k] = "backups" /\ k < Len(key)
                    /\ \A j \in 1..(k - 1) : ~(key[j] = "backups" /\ j < Len(key))
        rest == SubSeq(key, 1, first - 1) \o SubSeq(key, first + 1, Len(key))
    IN  rest[1]

\* lines 430-439: the names of the listed files, each recorded once, the empty
\* name never
RECURSIVE Buckets(_, _, _)
Buckets(content, n, buckets) ==
    IF n > Len(BackupKeys) THEN buckets
    ELSE LET filteredName == FilteredName(BackupKeys[n])
         IN  IF n \in content /\ filteredName # ""
                /\ \A k \in 1..Len(buckets) : buckets[k] # filteredName
             THEN Buckets(content, n + 1, Append(buckets, filteredName))
             ELSE Buckets(content, n + 1, buckets)

\* lines 411-418 and 771-785: the call, up to the first answer
ListBackupsCall(connector, shared, content, pageSize) ==
    /\ lb.phase = "idle"
    /\ connector = "gcs" => (~shared /\ pageSize = 1)
    /\ lb' = [lb EXCEPT !.phase = "listing", !.connector = connector,
                        !.shared = shared, !.content = content,
                        !.pageSize = pageSize]
    /\ UNCHANGED <<purgeVars, da, batch, tr, lv, cd, moreVars>>

\* lines 788-821, one turn of the loop whose request succeeded: the names of the
\* page's common prefixes are added; after a truncated page the key marker is
\* taken from the last common prefix, which throws when the page holds none
\* (caught, lines 815-818: the promise is rejected); when the loop ends the
\* promise is resolved with the names
S3BackupsPage ==
    /\ lb.phase = "listing"
    /\ lb.connector = "s3"
    /\ Len(lb.requests) < MaxRequests
    /\ LET response == BackupsResponse(lb.shared, lb.content, lb.KeyMarker, lb.pageSize)
           l == [lb EXCEPT !.requests = Append(@, lb.KeyMarker),
                           !.backupsArray =
                                @ \o BackupNamesOf(lb.shared, response.CommonPrefixes)]
       IN  lb' = IF ~response.IsTruncated
                 THEN [l EXCEPT !.phase = "settled", !.promise = "resolved"]
                 ELSE IF response.CommonPrefixes = <<>>
                      THEN [l EXCEPT !.phase = "settled", !.promise = "rejected"]
                      ELSE [l EXCEPT !.KeyMarker = PageMarker(response.CommonPrefixes)]
    /\ UNCHANGED <<purgeVars, da, batch, tr, lv, cd, moreVars>>

\* lines 815-818: the request failed
S3BackupsError ==
    /\ lb.phase = "listing"
    /\ lb.connector = "s3"
    /\ Len(lb.requests) < MaxRequests
    /\ lb' = [lb EXCEPT !.phase = "settled", !.failed = TRUE, !.promise = "rejected"]
    /\ UNCHANGED <<purgeVars, da, batch, tr, lv, cd, moreVars>>

\* lines 418-452: the bucket exists and its files under backups/ were listed
\* (ok), or the bucket is missing or a call failed
GcsBackupsListed(ok) ==
    /\ lb.phase = "listing"
    /\ lb.connector = "gcs"
    /\ lb' = IF ok
             THEN [lb EXCEPT !.phase = "settled", !.promise = "resolved",
                             !.backupsArray = Buckets(lb.content, 1, <<>>)]
             ELSE [lb EXCEPT !.phase = "settled", !.failed = TRUE,
                             !.promise = "rejected"]
    /\ UNCHANGED <<purgeVars, da, batch, tr, lv, cd, moreVars>>

ListBackupsInit ==
    /\ PurgeInit({JSUndefined}, {1}, <<>>)
    /\ da = DaIdle
    /\ UtilIdle

ListBackupsNext ==
    \/ /\ lb.phase = "idle"
       /\ \E connector \in Connectors, shared \in BOOLEAN,
             content \in SUBSET (1..Len(BackupKeys)), pageSize \in 1..MaxPage :
            ListBackupsCall(connector, shared, content, pageSize)
    \/ S3BackupsPage
    \/ S3BackupsError
    \/ \E ok \in BOOLEAN : GcsBackupsListed(ok)

\* one listBackups call of either connector
ListBackupsSpec == ListBackupsInit /\ [][ListBackupsNext]_vars

------------------------------------------------------------------------------
(* file-management-utils.js: calculateDate of the S3 connector (lines 832-867),
   called through the dispatcher (lines 109-145) by the purge (purgeScript.js
   lines 42-49) *)

\* a JavaScript number: NaN, or an integer
NaN == <<>>
Num(n) == <<n>>
IsNaN(x) == x = NaN

Digits == {"0", "1", "2", "3", "4", "5", "6", "7", "8", "9"}

DigitValue(c) ==
    CASE c = "0" -> 0 [] c = "1" -> 1 [] c = "2" -> 2 [] c = "3" -> 3
      [] c = "4" -> 4 [] c = "5" -> 5 [] c = "6" -> 6 [] c = "7" -> 7
      [] c = "8" -> 8 [] c = "9" -> 9

\* the value of a sequence of digits
RECURSIVE DigitsValue(_)
DigitsValue(s) ==
    IF s = <<>> THEN 0
    ELSE 10 * DigitsValue(SubSeq(s, 1, Len(s) - 1)) + DigitValue(s[Len(s)])

\* the longest prefix of s made of digits
RECURSIVE DigitPrefix(_)
DigitPrefix(s) ==
    IF s = <<>> \/ Head(s) \notin Digits THEN <<>>
    ELSE <<Head(s)>> \o DigitPrefix(Tail(s))

Signed(s) == s # <<>> /\ Head(s) \in {"-", "+"}
Unsigned(s) == IF Signed(s) THEN Tail(s) ELSE s
Sign(s) == IF Signed(s) /\ Head(s) = "-" THEN -1 ELSE 1

\* parseInt(s): an optional sign and the digits that follow it, whatever comes
\* after them; NaN without a digit there
ParseInt(s) ==
    LET digits == DigitPrefix(Unsigned(s))
    IN  IF digits = <<>> THEN NaN ELSE Num(Sign(s) * DigitsValue(digits))

\* the conversion of a string to a number made by new Date(...): an optional
\* sign and digits only; the empty string is 0
ToNumber(s) ==
    IF s = <<>> THEN Num(0)
    ELSE LET body == Unsigned(s)
         IN  IF body # <<>> /\ DigitPrefix(body) = body
             THEN Num(Sign(s) * DigitsValue(body))
             ELSE NaN

\* s.slice(from, to) for 0 <= from <= to
Slice(s, from, to) == SubSeq(s, from + 1, Min(to, Len(s)))

IsLeapYear(y) == (y % 4 = 0 /\ y % 100 # 0) \/ y % 400 = 0

DaysInMonth(y, m) ==
    IF m = 2 THEN (IF IsLeapYear(y) THEN 29 ELSE 28)
    ELSE IF m \in {4, 6, 9, 11} THEN 30 ELSE 31

\* new Date(...) of a year, a month 1..12 and any day number: days before the
\* first or after the last of the month roll into the neighbouring months
RECURSIVE RollDays(_, _, _)
RollDays(y, m, d) ==
    IF d < 1
    THEN LET py == IF m = 1 THEN y - 1 ELSE y
             pm == IF m = 1 THEN 12 ELSE m - 1
         IN  RollDays(py, pm, d + DaysInMonth(py, pm))
    ELSE IF d > DaysInMonth(y, m)
         THEN RollDays(IF m = 12 THEN y + 1 ELSE y, IF m = 12 THEN 1 ELSE m + 1,
                       d - DaysInMonth(y, m))
         ELSE [type |-> "date", year |-> y, month |-> m, day |-> d]

InvalidDate == [type |-> "invalid"]

\* new Date(year, month, day), month counted from 0: Invalid Date when a field
\* is NaN; a year 0..99 means 1900..1999; months outside 0..11 roll into the
\* neighbouring years
NewDate(year, month, day) ==
    IF IsNaN(year) \/ IsNaN(month) \/ IsNaN(day) THEN InvalidDate
    ELSE LET y == IF year[1] \in 0..99 THEN 1900 + year[1] ELSE year[1]
         IN  RollDays(y + (month[1] \div 12), (month[1] % 12) + 1, day[1])

\* a variant that reads a name of any length as the 35-character format
DateFields_AnyLength(backupName) ==
    [rejected |-> FALSE,
     year |-> ToNumber(Slice(backupName, 0, 4)),
     month |-> LET m == ParseInt(Slice(backupName, 4, 6))
               IN  IF IsNaN(m) THEN NaN ELSE Num(m[1] - 1),
     day |-> ToNumber(Slice(backupName, 6, 8))]

\* lines 836-851: year, month and day as new Date(...) will take them (an
\* undefined field is NaN there), and whether reject was called for the length
DateFields(backupName) ==
    IF Len(backupName) = 14
    THEN [rejected |-> FALSE,
          month |-> LET m == ParseInt(Slice(backupName, 0, 2))
                    IN  IF IsNaN(m) THEN NaN ELSE Num(m[1] - 1),
          day |-> ToNumber(Slice(backupName, 2, 4)),
          year |-> ToNumber(Slice(backupName, 4, 8))]
    ELSE IF Len(backupName) = 35
         THEN [rejected |-> FALSE,
               year |-> ToNumber(Slice(backupName, 0, 4)),
               month |-> LET m == ParseInt(Slice(backupName, 4, 6))
                         IN  IF IsNaN(m) THEN NaN ELSE Num(m[1] - 1),
               day |-> ToNumber(Slice(backupName, 6, 8))]
         ELSE [rejected |-> TRUE, year |-> NaN, month |-> NaN, day |-> NaN]

\* the characters tried in the date part of a name
DateChars == {"0", "1", "2", "3", "4", "5", "9", "-"}
Pairs == [1..2 -> DateChars]
Years == {<<"2", "0", "2", "2">>, <<"2", "0", "2", "4">>,
          <<"0", "0", "9", "9">>, <<"2", "0", "-", "2">>}

\* what follows the date in the two documented names, '03242022132649' and
\* '20220502230023-47180780406793064490'
Tail14 == <<"1", "3", "2", "6", "4", "9">>
Tail35 == <<"2", "3", "0", "0", "2", "3", "-", "4", "7", "1", "8", "0", "7", "8",
            "0", "4", "0", "6", "7", "9", "3", "0", "6", "4", "4", "9", "0">>

Names14 == {mm \o dd \o yyyy \o Tail14 : mm \in Pairs, dd \in Pairs, yyyy \in Years}
Names35 == {yyyy \o mm \o dd \o Tail35 : mm \in Pairs, dd \in Pairs, yyyy \in Years}

\* names of every other length up to MaxNameLen
OtherNames ==
    {[k \in 1..n |-> (<<"2", "0", "2", "2", "0", "5", "0", "2">>)[((k - 1) % 8) + 1]] :
        n \in (0..MaxNameLen) \ {14, 35}}

\* purgeScript.js line 43, file-management-utils.js lines 109-111:
\* calculateDate is called for a listed backup
CalculateDateCall(backupName) ==
    /\ cd.phase = "idle"
    /\ cd' = [cd EXCEPT !.phase = "called", !.backupName = backupName]
    /\ UNCHANGED <<purgeVars, da, batch, tr, lv, lb, moreVars>>

\* lines 832-867, passed on by the dispatcher (lines 129-131): a wrong length
\* calls reject and goes on; an Invalid Date throws, which is caught and calls
\* reject; otherwise the date is resolved; the first call settles the promise
S3CalculateDate ==
    /\ cd.phase = "called"
    /\ LET fields == DateFields(cd.backupName)
           date == NewDate(fields.year, fields.month, fields.day)
       IN  cd' = [cd EXCEPT
                    !.phase = "settled",
                    !.rejectCalls = (IF fields.rejected THEN 1 ELSE 0)
                                        + (IF date = InvalidDate THEN 1 ELSE 0),
                    !.promise = IF fields.rejected \/ date = InvalidDate
                                THEN "rejected" ELSE "resolved",
                    !.date = IF fields.rejected \/ date = InvalidDate
                             THEN @ ELSE date]
    /\ UNCHANGED <<purgeVars, da, batch, tr, lv, lb, moreVars>>

\* lines 111, 144: getFileConnectorInfo rejected
ConnectorInfoReject ==
    /\ cd.phase = "called"
    /\ cd' = [cd EXCEPT !.phase = "settled", !.rejectCalls = 1, !.promise = "rejected"]
    /\ UNCHANGED <<purgeVars, da, batch, tr, lv, lb, moreVars>>

\* purgeScript.js lines 43-48: the backup object is resolved with the date, or
\* with date undefined when calculateDate rejected
RecordBackup ==
    /\ cd.phase = "settled"
    /\ cd' = [cd EXCEPT
                !.phase = "recorded",
                !.backupObject = [type |-> "object", name |-> cd.backupName,
                                  date |-> IF cd.promise = "resolved"
                                           THEN cd.date ELSE JSUndefined]]
    /\ UNCHANGED <<purgeVars, da, batch, tr, lv, lb, moreVars>>

CalculateDateInit ==
    /\ PurgeInit({JSUndefined}, {1}, <<>>)
    /\ da = DaIdle
    /\ UtilIdle

CalculateDateNext ==
    \/ /\ cd.phase = "idle"
       /\ \E backupName \in Names14 \cup Names35 \cup OtherNames :
            CalculateDateCall(backupName)
    \/ S3CalculateDate
    \/ ConnectorInfoReject
    \/ RecordBackup

\* one backup name dated for the purge through the S3 connector
CalculateDateSpec == CalculateDateInit /\ [][CalculateDateNext]_vars

------------------------------------------------------------------------------
(* The itemQueue of the three batches, by task counts: deleteAll's deletions
   (file-management-utils.js lines 545-555 and 926-936), transferBackupFiles'
   copies (lines 642-653 and 1030-1037) and the purge's deleteAll tasks
   (purgeScript.js lines 109-117) *)

QueueKinds == {"delete", "copy", "purge"}

QueueLimit(kind) ==
    CASE kind = "delete" -> DeleteQueueLimit
      [] kind = "copy" -> CopyQueueLimit
      [] kind = "purge" -> PurgeQueueLimit

\* the batch sizes tried for a queue: none, one, the limit and more
TaskCounts(limit) == {0, 1} \cup {limit + k : k \in 0..MaxOver}

\* a variant that starts every waiting task
StartCount_Unlimited(queued, inFlight, limit) == queued

\* the queue starts waiting tasks while fewer than limit are in flight
StartCount(queued, inFlight, limit) == Min(queued, limit - inFlight)

\* the queue's process(): the handler is invoked for the tasks it starts
BatchStartWorkers(b) ==
    LET k == StartCount(b.queued, b.running + b.hung, QueueLimit(b.kind))
    IN  [b EXCEPT !.queued = @ - k, !.running = @ + k, !.started = @ + k]

\* lines 592, 692, 984, 1081 and purgeScript.js line 145: itemQueue.push(array)
BatchPush(kind, n) ==
    /\ batch.phase = "idle"
    /\ batch' = [batch EXCEPT !.phase = "pushed", !.kind = kind,
                              !.submitted = n, !.queued = n]
    /\ UNCHANGED <<purgeVars, da, tr, lv, lb, cd, moreVars>>

\* the queue processes the push on the next tick: it starts the workers, or,
\* for an empty push, signals drain
BatchProcess ==
    /\ batch.phase = "pushed"
    /\ batch' = IF batch.submitted = 0
                THEN [batch EXCEPT !.phase = "drained", !.drainCalls = @ + 1]
                ELSE BatchStartWorkers([batch EXCEPT !.phase = "running"])
    /\ UNCHANGED <<purgeVars, da, tr, lv, lb, cd, moreVars>>

\* the call made by a handler settled, resolved or rejected, and the handler
\* called done(): the queue signals drain when nothing is left, or starts the
\* next waiting task
BatchTaskDone(ok) ==
    /\ ~batch.exited
    /\ batch.phase = "running"
    /\ batch.running > 0
    /\ LET b == [batch EXCEPT !.running = @ - 1, !.completed = @ + 1,
                              !.failed = IF ok THEN @ ELSE @ + 1]
       IN  batch' = IF b.queued = 0 /\ b.running + b.hung = 0
                    THEN [b EXCEPT !.phase = "drained", !.drainCalls = @ + 1]
                    ELSE BatchStartWorkers(b)
    /\ UNCHANGED <<purgeVars, da, tr, lv, lb, cd, moreVars>>

\* purgeScript.js lines 110-116 with file-management-utils.js lines 577 and
\* 961: the deleteAll call of a purge task had a failed item, its drain callback
\* threw, and its promise never settles: done() is not called for the task, and
\* node may end the process on the unhandled rejection
BatchTaskHangs(exit) ==
    /\ ~batch.exited
    /\ batch.phase = "running"
    /\ batch.kind = "purge"
    /\ batch.running > 0
    /\ batch' = [batch EXCEPT !.running = @ - 1, !.hung = @ + 1, !.exited = exit]
    /\ UNCHANGED <<purgeVars, da, tr, lv, lb, cd, moreVars>>

BatchInit ==
    /\ PurgeInit({JSUndefined}, {1}, <<>>)
    /\ da = DaIdle
    /\ UtilIdle

BatchNext ==
    \/ \E kind \in QueueKinds : \E n \in TaskCounts(QueueLimit(kind)) : BatchPush(kind, n)
    \/ BatchProcess
    \/ \E ok \in BOOLEAN : BatchTaskDone(ok)
    \/ \E exit \in BOOLEAN : BatchTaskHangs(exit)

\* one batch of any of the three queues
BatchSpec == BatchInit /\ [][BatchNext]_vars

------------------------------------------------------------------------------
(* Claims about the purge *)

Range(s) == {s[k] : k \in 1..Len(s)}

\* installation i's Promise.all handler has run
Processed(i) == stage[i] \in {"skipped", "pushed", "running", "drained"}
Live == dryrun = JSBool(FALSE)

\* the backup objects listed for installation i, by kind of date
DatedBackups(i) == {o \in Range(promises[i]) : o.date # Undefined}
UndatedBackups(i) == {o \in Range(promises[i]) : o.date = Undefined}

\* the dated backups of installation i that are not scheduled for deletion
KeptDated(i) == DatedBackups(i) \ Range(backupsToDelete[i])

\* C1: once an installation is processed, exactly min(quantity, number of dated
\* backups) dated backups are left unscheduled for deletion, and each of them is
\* at least as recent as every dated backup that is scheduled.
C1_RetainsNewestDated ==
    \A i \in InstallationIds :
        Processed(i) =>
            /\ Cardinality(KeptDated(i)) = Min(quantity, Cardinality(DatedBackups(i)))
            /\ \A a \in KeptDated(i), b \in DatedBackups(i) \ KeptDated(i) :
                    a.date >= b.date

\* C2: a backup whose date is undefined is never a purge candidate: no task is
\* pushed for it, no deleteAll call is made for it, no dry-run 'Delete: ' line
\* names it.
C2_UndatedNeverCandidate ==
    \A i \in InstallationIds :
        \A o \in UndatedBackups(i) :
            /\ o \notin Range(backupsToDelete[i])
            /\ Task(i, o) \notin Range(tasks[i])
            /\ Task(i, o) \notin Range(deleteAllCalls[i])
            /\ [name |-> o.name, filesource |-> o.filesource] \notin Range(dryLog[i])

\* C3: an installation with no more dated backups than the quantity is skipped:
\* nothing is planned and no task is pushed for it.
C3_SkippedWhenFewDated ==
    \A i \in InstallationIds :
        (Processed(i) /\ Cardinality(DatedBackups(i)) <= quantity) =>
            /\ stage[i] = "skipped"
            /\ backupsToDelete[i] = <<>>
            /\ tasks[i] = <<>>
            /\ dryLog[i] = <<>>

\* C4: in a dry run (dryrun !== false) deleteAll is never called and no task is
\* ever pushed to an itemQueue, for any installation.
C4_DryRunDeletesNothing ==
    (~Live) =>
        \A i \in InstallationIds :
            /\ deleteAllCalls[i] = <<>>
            /\ tasks[i] = <<>>
            /\ taskState[i] = <<>>

\* C4 witness: a dry run that planned deletions on both filesources and
\* reported completion, with no deleteAll call made.
C4_Witness ==
    /\ ~Live
    /\ stage["i1"] = "drained"
    /\ {l.filesource : l \in Range(dryLog["i1"])} = Range(Filesources)
    /\ deleteAllCalls["i1"] = <<>>

\* 'false' in any mix of upper and lower case, character by character
IsFalseIgnoringCase(v) ==
    /\ v.type = "string"
    /\ Len(v.s) = 5
    /\ v.s[1] \in {"f", "F"}
    /\ v.s[2] \in {"a", "A"}
    /\ v.s[3] \in {"l", "L"}
    /\ v.s[4] \in {"s", "S"}
    /\ v.s[5] \in {"e", "E"}

\* C5: once the module-level code has run, dryrun is a boolean, and it is false
\* (live mode) exactly when DRYRUN is a string equal to 'false' ignoring case;
\* unset, empty and every other value give true.
C5_DryrunDefaultsSafe ==
    (pc # "load") =>
        /\ dryrun.type = "boolean"
        /\ (dryrun = JSBool(FALSE)) <=> IsFalseIgnoringCase(DRYRUN)

\* C5 witness: a mixed-case 'FalsE' was parsed to live mode.
C5_Witness ==
    /\ pc # "load"
    /\ DRYRUN = JSString(<<"F", "a", "l", "s", "E">>)
    /\ dryrun = JSBool(FALSE)

\* every listed backup of installation i has a date, and no two share one
AllDated(i) == \A o \in Range(promises[i]) : o.date \in Dates
DistinctDates(i) ==
    \A j, k \in 1..Len(promises[i]) : j # k => promises[i][j].date # promises[i][k].date

\* the backups of installation i that have at least quantity newer ones
Oldest(i) ==
    {o \in Range(promises[i]) :
        Cardinality({p \in Range(promises[i]) : p.date > o.date}) >= quantity}

\* C6: when all n > quantity listed backups of a processed installation are
\* dated, with distinct dates, the purge candidates are exactly the n - quantity
\* oldest, whatever the listing order; a dry run reports exactly the quantity
\* newest as kept; a live run keeps none of the candidates out of its tasks.
C6_DeletesOldestKeepsNewest ==
    \A i \in InstallationIds :
        (/\ Processed(i)
         /\ AllDated(i)
         /\ DistinctDates(i)
         /\ Len(promises[i]) > quantity) =>
            /\ stage[i] # "skipped"
            /\ Range(backupsToDelete[i]) = Oldest(i)
            /\ Len(backupsToDelete[i]) = Len(promises[i]) - quantity
            /\ (~Live) =>
                /\ Range(backupsToKeep[i]) = Range(promises[i]) \ Oldest(i)
                /\ Len(backupsToKeep[i]) = quantity
                /\ Range(dryLog[i]) =
                        {[name |-> o.name, filesource |-> o.filesource] : o \in Oldest(i)}
            /\ Live => Len(tasks[i]) = Len(promises[i]) - quantity

\* C6 witness: three backups listed newest first are processed with quantity 2
\* in a dry run; only the oldest one is a candidate.
C6_Witness ==
    /\ ~Live
    /\ quantity = 2
    /\ stage["i1"] = "drained"
    /\ Len(promises["i1"]) = 3
    /\ promises["i1"][1].date = 3
    /\ promises["i1"][2].date = 2
    /\ promises["i1"][3].date = 1
    /\ backupsToDelete["i1"] = <<promises["i1"][3]>>

IsPrefix(s, t) == Len(s) <= Len(t) /\ s = SubSeq(t, 1, Len(s))

\* C7: in live mode the tasks pushed for an installation are, one for one, its
\* purge candidates: task k carries that installation's id, the path 'backups/'
\* followed by candidate k's name (never the empty path) and candidate k's
\* filesource; deleteAll is called only for pushed tasks, each at most once, and
\* for every one of them by the time the queue has drained.
C7_OneTaskPerCandidate ==
    \A i \in InstallationIds :
        Live =>
            /\ Len(tasks[i]) = Len(backupsToDelete[i])
            /\ \A k \in 1..Len(tasks[i]) :
                /\ tasks[i][k].currentInstallation = i
                /\ tasks[i][k].path = "backups/" \o backupsToDelete[i][k].name
                /\ tasks[i][k].path # ""
                /\ tasks[i][k].filesource = backupsToDelete[i][k].filesource
            /\ IsPrefix(deleteAllCalls[i], tasks[i])
            /\ stage[i] = "drained" => deleteAllCalls[i] = tasks[i]

\* C7 witness: a live run whose queue drained after deleteAll calls for
\* candidates of two different filesources.
C7_Witness ==
    /\ Live
    /\ stage["i1"] = "drained"
    /\ Len(deleteAllCalls["i1"]) >= 2
    /\ \E j, k \in 1..Len(deleteAllCalls["i1"]) :
            deleteAllCalls["i1"][j].filesource # deleteAllCalls["i1"][k].filesource

AllPairs == {<<installations[j], Filesources[k]>> :
                j \in 1..Len(installations), k \in 1..Len(Filesources)}

\* C8: a failure below the installation list and the cluster configuration
\* never ends the run: when the main chain is done every (installation,
\* filesource) pair was listed, and the process never ends before every
\* installation of the list has been processed.
C8_FailuresIsolated ==
    /\ (pc = "done") => listCalls = AllPairs
    /\ exited =>
        /\ listCalls = AllPairs
        /\ \A j \in 1..Len(installations) : Processed(installations[j])

------------------------------------------------------------------------------
(* Claims about deleteAll *)

\* C9: once the batch has drained with at least one failed delete task, the
\* promise is rejected with the aggregate error: its failedItems are exactly the
\* failed tasks and its message carries the count of successful deletions.
C9_AggregateErrorOnFailure ==
    (da.phase = "drained" /\ da.failedItems # <<>>) =>
        /\ da.promise = "rejected"
        /\ da.result = "failedItems"
        /\ da.resultFailed = da.failedItems
        /\ da.resultCount = da.itemsDeletedCount

DoneTasks == {k \in 1..Len(da.taskState) : da.taskState[k] = "done"}

\* C10: for a listing of K object versions and M delete markers exactly K + M
\* tasks are pushed; when the drain callback has run, itemsDeletedCount +
\* failedItems.length = K + M; and always itemsDeletedCount <= K + M and
\* itemsDeletedCount + failedItems.length is the number of completed tasks.
C10_CountsAddUp ==
    /\ da.phase \in {"pushed", "running", "drained"} =>
            /\ Len(da.items) = da.versions + da.markers
            /\ Len(da.taskState) = da.versions + da.markers
    /\ da.drainCalls > 0 =>
            da.itemsDeletedCount + Len(da.failedItems) = da.versions + da.markers
    /\ da.itemsDeletedCount <= da.versions + da.markers
    /\ da.itemsDeletedCount + Len(da.failedItems) = Cardinality(DoneTasks)
    /\ \A k \in 1..Len(da.failedItems) : da.failedItems[k] \in Range(da.items)

\* C10 witness: an S3 batch of two versions and a delete marker has drained
\* with two deletions done and the delete marker's deletion failed.
C10_Witness ==
    /\ da.connector = "s3"
    /\ da.phase = "drained"
    /\ da.versions = 2
    /\ da.markers = 1
    /\ da.itemsDeletedCount = 2
    /\ da.failedItems = <<[kind |-> "marker", n |-> 1]>>

\* the bucket is one of its own, not a folder of a shared (v2) S3 bucket
Dedicated == da.connector = "gcs" \/ ~da.shared

AllTasksDone == \A k \in 1..Len(da.taskState) : da.taskState[k] = "done"

\* C11: for the bucket root (folder '') the drain callback starts the second
\* listing; a dedicated bucket whose deletions all succeeded and whose second
\* listing reported nothing left gets exactly one bucket-deletion call; and a
\* bucket-deletion call is never made before the last delete task completed
\* and the second listing resolved.
C11_BucketDeletedAfterRelist ==
    /\ (da.folder = "" /\ da.phase = "drained") => da.relist # "none"
    /\ (/\ da.folder = ""
        /\ Dedicated
        /\ da.failedItems = <<>>
        /\ da.relist = "resolved"
        /\ da.remaining = "zero") => da.bucketDeleteCalls = 1
    /\ da.bucketDeleteCalls <= 1
    /\ da.bucketDeleteCalls > 0 =>
            /\ da.drainCalls = 1
            /\ AllTasksDone
            /\ da.relist = "resolved"
    /\ da.bucketDelete # "none" => da.bucketDeleteCalls = 1

\* C11 witness: an S3 bucket root of two versions and a delete marker, all
\* deleted, listed again as empty, and the bucket deletion issued.
C11_Witness ==
    /\ da.connector = "s3"
    /\ da.folder = ""
    /\ ~da.shared
    /\ da.itemsDeletedCount = 3
    /\ da.relist = "resolved"
    /\ da.remaining = "zero"
    /\ da.bucketDeleteCalls = 1
    /\ da.bucketDelete = "pending"

\* C12: no bucket-deletion call is ever made for a non-empty folder, for a
\* folder of a shared (v2) S3 bucket, or after a second listing that reported
\* at least one remaining entry.
C12_BucketKeptOtherwise ==
    (\/ da.folder # ""
     \/ (da.connector = "s3" /\ da.shared)
     \/ da.remaining = "some") =>
        /\ da.bucketDeleteCalls = 0
        /\ da.bucketDelete = "none"

\* C12 witness: the root of an installation's folder in a shared S3 bucket was
\* emptied and listed again as empty, and no bucket deletion was issued.
C12_Witness ==
    /\ da.connector = "s3"
    /\ da.shared
    /\ da.folder = ""
    /\ da.itemsDeletedCount > 0
    /\ da.failedItems = <<>>
    /\ da.relist = "resolved"
    /\ da.remaining = "zero"
    /\ da.bucketDeleteCalls = 0

------------------------------------------------------------------------------
(* Claims about the batches *)

\* nothing more can complete in the batch: no handler's call is outstanding, or
\* the process has ended
BatchQuiet ==
    /\ batch.phase \in {"running", "drained"}
    /\ (batch.exited \/ batch.running = 0)

\* C13: in every batch the handler is invoked for every submitted task, and
\* never more often than once a task, whichever tasks fail: when no call of a
\* handler is outstanding any more, every submitted task has been started.
C13_EveryTaskHandled ==
    /\ batch.started <= batch.submitted
    /\ batch.started = batch.completed + batch.running + batch.hung
    /\ BatchQuiet => batch.started = batch.submitted

\* C14: the tasks started and not yet done never exceed the queue's limit: 100
\* for deleteAll's deletions, 25 for the copies of a transfer, 10 for the
\* deleteAll tasks of an installation's purge.
C14_ConcurrencyBounded ==
    /\ batch.kind = "delete" => batch.running + batch.hung <= 100
    /\ batch.kind = "copy" => batch.running + batch.hung <= 25
    /\ batch.kind = "purge" => batch.running + batch.hung <= 10
    /\ batch.running + batch.hung = batch.started - batch.completed

\* C14 witness: in a copy batch of 26 tasks the last one was held back until a
\* first task completed, and 25 are in flight again.
C14_Witness ==
    /\ batch.kind = "copy"
    /\ batch.submitted = 26
    /\ batch.completed = 1
    /\ batch.started = 26
    /\ batch.running = 25

TrAllDone == \A k \in 1..Len(tr.taskState) : tr.taskState[k] = "done"

\* C15: the drain callback of a deleteAll or transferBackupFiles batch runs
\* exactly once, and only when every submitted task has completed; the promise
\* of the call is never settled while a task is waiting or in flight, and is
\* settled at most once.
C15_DrainOnceSettleOnce ==
    /\ da.drainCalls <= 1 /\ tr.drainCalls <= 1
    /\ da.drainCalls = 1 => AllTasksDone
    /\ tr.drainCalls = 1 => TrAllDone
    /\ (da.phase \in {"running", "drained"} /\ AllTasksDone) => da.drainCalls = 1
    /\ (tr.phase \in {"running", "drained"} /\ TrAllDone) => tr.drainCalls = 1
    /\ da.promise # "pending" => AllTasksDone
    /\ tr.promise # "pending" => TrAllDone
    /\ da.settles <= 1 /\ tr.settles <= 1
    /\ (da.promise = "pending") <=> (da.settles = 0)
    /\ (tr.promise = "pending") <=> (tr.settles = 0)

\* C15 witness: an S3 transfer of two copies, the second of which failed, has
\* drained once and resolved.
C15_Witness ==
    /\ tr.connector = "s3"
    /\ Len(tr.taskState) = 2
    /\ TrAllDone
    /\ tr.copyFailed = {2}
    /\ tr.drainCalls = 1
    /\ tr.promise = "resolved"
    /\ tr.settles = 1

------------------------------------------------------------------------------
(* Claims about the listings *)

\* how often entry e occurs in sequence r
Occurrences(r, e) == Cardinality({k \in 1..Len(r) : r[k] = e})

\* C16: a listFileVersions call whose requests all succeed resolves, and its
\* result holds every object version and every delete marker stored under the
\* prefix exactly once, the versions in Versions and the delete markers in
\* DeleteMarkers, and nothing else, whatever the content and the page size.
C16_ListsEveryEntryOnce ==
    (lv.connector = "s3" /\ lv.phase = "settled" /\ ~lv.failed) =>
        /\ lv.promise = "resolved"
        /\ \A e \in Range(lv.content) :
                /\ Occurrences(lv.Versions, e) = (IF IsVersion(e) THEN 1 ELSE 0)
                /\ Occurrences(lv.DeleteMarkers, e) = (IF IsMarker(e) THEN 1 ELSE 0)
        /\ Range(lv.Versions) \cup Range(lv.DeleteMarkers) \subseteq Range(lv.content)

\* the segment below backups/ of the key at position n
TopSegment(n) == BackupKeys[n][2]

\* the names of the folders stored below backups/
FolderNames(content) == {TopSegment(n) : n \in {m \in content : Len(BackupKeys[m]) > 2}}

\* C17: an S3 listBackups call whose requests all succeed never sends two
\* requests with the same cursor (after a truncated page the next request
\* resumes past what was listed), and it ends resolved with the names of all
\* the common prefixes under backups/, on however many pages they come.
C17_BackupPagesAdvance ==
    lb.connector = "s3" =>
        /\ \A j, k \in 1..Len(lb.requests) :
                j < k => lb.requests[j] < lb.requests[k]
        /\ (lb.phase = "settled" /\ ~lb.failed) =>
                /\ lb.promise = "resolved"
                /\ Range(lb.backupsArray) = FolderNames(lb.content)

\* C18: a resolved listBackups call of either connector returned no name
\* twice and no empty name; the names are top-level segments below backups/,
\* and every folder below backups/ with a non-empty name is among them.
C18_BackupNamesDistinct ==
    lb.promise = "resolved" =>
        /\ \A j, k \in 1..Len(lb.backupsArray) :
                j # k => lb.backupsArray[j] # lb.backupsArray[k]
        /\ "" \notin Range(lb.backupsArray)
        /\ FolderNames(lb.content) \ {""} \subseteq Range(lb.backupsArray)
        /\ Range(lb.backupsArray) \subseteq {TopSegment(n) : n \in lb.content}

------------------------------------------------------------------------------
(* Claims about calculateDate *)

Example14 == <<"0", "3", "2", "4", "2", "0", "2", "2">> \o Tail14
Example35 == <<"2", "0", "2", "2", "0", "5", "0", "2">> \o Tail35

\* the date whose year, month and day are written by the given characters
DateWritten(yyyy, mm, dd) ==
    [type |-> "date", year |-> ToNumber(yyyy), month |-> ToNumber(mm),
     day |-> ToNumber(dd)]

DateRead ==
    [type |-> "date", year |-> Num(cd.date.year), month |-> Num(cd.date.month),
     day |-> Num(cd.date.day)]

\* C19: the date the S3 calculateDate resolves for a 14-character name has the
\* month written by characters [0:2], the day by [2:4] and the year by [4:8];
\* for a 35-character name the year by [0:4], the month by [4:6] and the day by
\* [6:8]; '03242022132649' gives 2022-03-24 and
\* '20220502230023-47180780406793064490' gives 2022-05-02.
C19_DateFromNamePositions ==
    /\ (cd.promise = "resolved" /\ Len(cd.backupName) = 14) =>
            DateRead = DateWritten(Slice(cd.backupName, 4, 8),
                                   Slice(cd.backupName, 0, 2),
                                   Slice(cd.backupName, 2, 4))
    /\ (cd.promise = "resolved" /\ Len(cd.backupName) = 35) =>
            DateRead = DateWritten(Slice(cd.backupName, 0, 4),
                                   Slice(cd.backupName, 4, 6),
                                   Slice(cd.backupName, 6, 8))
    /\ (cd.phase = "recorded" /\ cd.rejectCalls = 0 /\ cd.backupName = Example14) =>
            cd.backupObject.date = [type |-> "date", year |-> 2022, month |-> 3, day |-> 24]
    /\ (cd.phase = "recorded" /\ cd.rejectCalls = 0 /\ cd.backupName = Example35) =>
            cd.backupObject.date = [type |-> "date", year |-> 2022, month |-> 5, day |-> 2]

\* C20: for a name whose length is neither 14 nor 35 the promise of calculateDate
\* is rejected, never resolved with a date, and the purge records the backup
\* with date undefined.
C20_WrongLengthRejected ==
    (Len(cd.backupName) \notin {14, 35}) =>
        /\ cd.promise # "resolved"
        /\ cd.phase \in {"settled", "recorded"} => cd.promise = "rejected"
        /\ cd.phase = "recorded" =>
                cd.backupObject = [type |-> "object", name |-> cd.backupName,
                                   date |-> JSUndefined]

\* C20 witness: a name of 13 characters was rejected for its length, by the
\* connector itself, and recorded with date undefined.
C20_Witness ==
    /\ Len(cd.backupName) = 13
    /\ cd.rejectCalls = 2
    /\ cd.phase = "recorded"
    /\ cd.backupObject.date = JSUndefined

\* the characters written for year, month and day denote a calendar date
AllDigits(chars) == \A k \in 1..Len(chars) : chars[k] \in Digits

ValidCalendarDate(yyyy, mm, dd) ==
    /\ AllDigits(yyyy) /\ AllDigits(mm) /\ AllDigits(dd)
    /\ DigitsValue(mm) \in 1..12
    /\ DigitsValue(dd) \in 1..DaysInMonth(DigitsValue(yyyy), DigitsValue(mm))

WrittenValid(backupName) ==
    IF Len(backupName) = 14
    THEN ValidCalendarDate(Slice(backupName, 4, 8), Slice(backupName, 0, 2),
                           Slice(backupName, 2, 4))
    ELSE ValidCalendarDate(Slice(backupName, 0, 4), Slice(backupName, 4, 6),
                           Slice(backupName, 6, 8))

\* C21: for a name of length 14 or 35 whose year, month and day fields do not
\* denote a valid calendar date (a month outside 1..12, a day outside the
\* month), calculateDate never resolves with a date.
C21_InvalidDateRejected ==
    (Len(cd.backupName) \in {14, 35} /\ ~WrittenValid(cd.backupName)) =>
        cd.promise # "resolved"

-------------------------------------------------------------------------------
(* file-management-utils.js, S3 connector: deleteObjectVersion (lines 877-906) *)

\* the installation ids, object paths and version ids a call is made with
DeleteBuckets == {"inst1", "inst2"}
DeletePaths == {"backups/b1/a", "backups/b1/b", "public/a"}
DeleteVersionIds == {"v1", "v2", "null"}

\* credentials.bucket: no such entry, a string (empty or not), or a value that
\* is not a string
BucketEntries ==
    {[type |-> "absent"], JSString(""), JSString("shared"), JSUndefined,
     [type |-> "number"]}

\* line 883: 'bucket' in credentials
HasBucketEntry(bucket) == bucket.type # "absent"

\* line 884: typeof credentials.bucket === 'string' && credentials.bucket.length > 0
IsBucketName(bucket) == bucket.type = "string" /\ Len(bucket.s) > 0

\* a delete request that names no version (not what the code builds)
DeleteParams_Unversioned(bucketName, filePath, versionId, bucket) ==
    [Bucket |-> IF HasBucketEntry(bucket) THEN bucket.s ELSE bucketName,
     Key |-> filePath, VersionId |-> "undefined"]

\* lines 878-882 and 885: the parameters of the DeleteObjectCommand
DeleteParams(bucketName, filePath, versionId, bucket) ==
    [Bucket |-> IF HasBucketEntry(bucket) THEN bucket.s ELSE bucketName,
     Key |-> filePath, VersionId |-> versionId]

\* resolve / reject of the promise of line 878: the first call settles it
DovSettle(d, how) ==
    IF d.promise = "pending"
    THEN [d EXCEPT !.promise = how, !.settles = @ + 1]
    ELSE d

\* lines 877-888: the call; an unusable 'bucket' entry rejects at line 887 and
\* returns before getClient is called
DeleteVersionCall(bucketName, filePath, versionId, bucket) ==
    /\ dov.phase = "idle"
    /\ LET d == [dov EXCEPT !.bucketName = bucketName, !.filePath = filePath,
                            !.versionId = versionId, !.bucket = bucket]
       IN  dov' = IF HasBucketEntry(bucket) /\ ~IsBucketName(bucket)
                  THEN DovSettle([d EXCEPT !.phase = "done"], "rejected")
                  ELSE [d EXCEPT !.phase = "client"]
    /\ UNCHANGED <<purgeVars, da, batch, tr, lv, lb, cd, dp, rt, pd>>

\* lines 892-895: getClient resolved (for a credentials object it builds a
\* client) and the DeleteObjectCommand is sent
DeleteVersionSend ==
    /\ dov.phase = "client"
    /\ dov' = [dov EXCEPT !.phase = "sent",
                          !.requests = Append(@, DeleteParams(dov.bucketName,
                                          dov.filePath, dov.versionId, dov.bucket))]
    /\ UNCHANGED <<purgeVars, da, batch, tr, lv, lb, cd, dp, rt, pd>>

\* lines 896-901: the request succeeded (resolve) or failed (reject)
DeleteVersionSettle(ok) ==
    /\ dov.phase = "sent"
    /\ dov' = DovSettle([dov EXCEPT !.phase = "done",
                                    !.response = IF ok THEN "ok" ELSE "failed"],
                        IF ok THEN "resolved" ELSE "rejected")
    /\ UNCHANGED <<purgeVars, da, batch, tr, lv, lb, cd, dp, rt, pd>>

DeleteVersionInit ==
    /\ PurgeInit({JSUndefined}, {1}, <<>>)
    /\ da = DaIdle
    /\ UtilIdle

DeleteVersionNext ==
    \/ (dov.phase = "idle" /\
        \E bucketName \in DeleteBuckets, filePath \in DeletePaths,
           versionId \in DeleteVersionIds, bucket \in BucketEntries :
            DeleteVersionCall(bucketName, filePath, versionId, bucket))
    \/ DeleteVersionSend
    \/ \E ok \in BOOLEAN : DeleteVersionSettle(ok)

DeleteVersionSpec == DeleteVersionInit /\ [][DeleteVersionNext]_vars

\* C22: a deleteObjectVersion call of the S3 connector issues at most one delete
\* request, which carries the given key and version id; it issues exactly one
\* unless the credentials' 'bucket' entry is unusable, in which case it rejects
\* with no request issued; it resolves only if the request succeeded and rejects
\* if the request failed; the promise is settled once.
C22_OneQualifiedDelete ==
    /\ Len(dov.requests) <= 1
    /\ \A k \in 1..Len(dov.requests) :
          /\ dov.requests[k].Key = dov.filePath
          /\ dov.requests[k].VersionId = dov.versionId
    /\ (dov.phase # "idle" /\ HasBucketEntry(dov.bucket) /\ ~IsBucketName(dov.bucket)) =>
          (dov.promise = "rejected" /\ Len(dov.requests) = 0)
    /\ (dov.phase \in {"sent", "done"} /\
        ~(HasBucketEntry(dov.bucket) /\ ~IsBucketName(dov.bucket))) =>
          Len(dov.requests) = 1
    /\ dov.promise = "resolved" => (Len(dov.requests) = 1 /\ dov.response = "ok")
    /\ dov.response = "failed" => (dov.promise = "rejected" /\ Len(dov.requests) = 1)
    /\ dov.settles <= 1

\* a call through the shared bucket whose one delete request failed
C22_Witness ==
    /\ dov.phase = "done"
    /\ dov.bucket = JSString("shared")
    /\ dov.response = "failed"
    /\ dov.promise = "rejected"
    /\ Len(dov.requests) = 1
    /\ dov.requests[1].VersionId = "v2"

-------------------------------------------------------------------------------
(* file-management-utils.js, the dispatcher (lines 10-357) *)

\* the operations that switch on (provider, product)
DispatchOperations ==
    {"listFileVersions", "listBackups", "calculateDate", "deleteObjectVersion",
     "deleteAll", "transferBackupFiles"}

\* what getFileConnectorInfo can answer for a filesource
Providers == {"google", "amazon", "azure"}
Products == {"storage", "s3", "blob"}

\* a routing on the product alone (not what the code does)
Route_ByProduct(provider, product) ==
    CASE product = "storage" -> "gcs"
      [] product = "s3" -> "s3"
      [] OTHER -> "unsupported"

\* the nested switch of every operation (lines 22-51, 67-96, 113-142, 160-189,
\* 206-235, 325-354): the connector the call goes to
Route(provider, product) ==
    CASE provider = "google" -> IF product = "storage" THEN "gcs" ELSE "unsupported"
      [] provider = "amazon" -> IF product = "s3" THEN "s3" ELSE "unsupported"
      [] OTHER -> "unsupported"

\* the text before the provider in the Error of a default branch; the google
\* branches of listFileVersions and listBackups say 'listFiles' (lines 31, 76)
ErrorPrefix(operation, provider) ==
    IF operation \in {"listFileVersions", "listBackups"} /\ provider = "google"
    THEN "listFiles error: method does not currently support "
    ELSE operation \o " error: method does not currently support "

\* the message of the Error, as the pieces the code concatenates
UnsupportedError(operation, provider, product) ==
    <<ErrorPrefix(operation, provider), provider, "'s ", product>>

\* resolve / reject of the dispatcher's promise: the first call settles it
DpSettle(d, how, error) ==
    IF d.promise = "pending"
    THEN [d EXCEPT !.promise = how, !.error = error, !.settles = @ + 1]
    ELSE d

\* the switch on provider and product: the connector's operation is called, or
\* the default branch rejects
Dispatch(d, operation, provider, product) ==
    LET r == [d EXCEPT !.provider = provider, !.product = product]
    IN  IF Route(provider, product) = "unsupported"
        THEN DpSettle([r EXCEPT !.phase = "done"], "rejected",
                      UnsupportedError(operation, provider, product))
        ELSE [r EXCEPT !.phase = "connector",
                       !.connectorCalls = Append(@, [connector |-> Route(provider, product),
                                                     operation |-> operation])]

\* lines 20, 65, 111, 158, 204: one of the five operations that ask
\* getFileConnectorInfo for the filesource's provider and product
DispatchCall(operation) ==
    /\ dp.phase = "idle"
    /\ operation \in DispatchOperations \ {"transferBackupFiles"}
    /\ dp' = [dp EXCEPT !.phase = "info", !.operation = operation]
    /\ UNCHANGED <<purgeVars, da, batch, tr, lv, lb, cd, dov, rt, pd>>

\* lines 21-52 and their likes: getFileConnectorInfo resolved
ConnectorInfoResolve(provider, product) ==
    /\ dp.phase = "info"
    /\ dp' = Dispatch(dp, dp.operation, provider, product)
    /\ UNCHANGED <<purgeVars, da, batch, tr, lv, lb, cd, dov, rt, pd>>

\* lines 53, 98, 144, 191, 237: getFileConnectorInfo rejected
ConnectorInfoFails ==
    /\ dp.phase = "info"
    /\ dp' = DpSettle([dp EXCEPT !.phase = "done"], "rejected", <<"connector info">>)
    /\ UNCHANGED <<purgeVars, da, batch, tr, lv, lb, cd, dov, rt, pd>>

\* lines 322-356: transferBackupFiles is handed the provider and the product
TransferBackupFilesCall(provider, product) ==
    /\ dp.phase = "idle"
    /\ dp' = Dispatch([dp EXCEPT !.operation = "transferBackupFiles",
                                 !.transferCalls = @ + 1],
                      "transferBackupFiles", provider, product)
    /\ UNCHANGED <<purgeVars, da, batch, tr, lv, lb, cd, dov, rt, pd>>

\* .then(resolve).catch(reject) on the connector's promise
ConnectorSettle(ok) ==
    /\ dp.phase = "connector"
    /\ dp' = DpSettle([dp EXCEPT !.phase = "done"],
                      IF ok THEN "resolved" ELSE "rejected",
                      IF ok THEN <<>> ELSE <<"connector">>)
    /\ UNCHANGED <<purgeVars, da, batch, tr, lv, lb, cd, dov, rt, pd>>

\* lines 250-255: transferFiles starts by downloading the backup's files.json
TransferFilesCall ==
    /\ dp.phase = "idle"
    /\ dp' = [dp EXCEPT !.phase = "download", !.operation = "transferFiles"]
    /\ UNCHANGED <<purgeVars, da, batch, tr, lv, lb, cd, dov, rt, pd>>

\* the steps before the destination's connector is known: the download
\* (lines 255, 307-309), fs.readFile (257-260) and getInstallationConfig
\* (269-272, 302-304); a failure of any rejects the transfer
TransferFilesSteps == <<"download", "readFile", "config", "destinationInfo">>

TransferFilesStep(ok) ==
    /\ \E k \in 1..3 :
          /\ dp.phase = TransferFilesSteps[k]
          /\ dp' = IF ok
                   THEN [dp EXCEPT !.phase = TransferFilesSteps[k + 1]]
                   ELSE DpSettle([dp EXCEPT !.phase = "done"], "rejected",
                                 <<TransferFilesSteps[k]>>)
    /\ UNCHANGED <<purgeVars, da, batch, tr, lv, lb, cd, dov, rt, pd>>

\* lines 273-279: the destination's provider and product
DestinationInfoResolve(provider, product) ==
    /\ dp.phase = "destinationInfo"
    /\ dp' = [dp EXCEPT !.phase = "sourceInfo", !.destinationProvider = provider,
                        !.destinationProduct = product]
    /\ UNCHANGED <<purgeVars, da, batch, tr, lv, lb, cd, dov, rt, pd>>

\* lines 299-304: either getFileConnectorInfo call of transferFiles rejected
TransferInfoFails ==
    /\ dp.phase \in {"destinationInfo", "sourceInfo"}
    /\ dp' = DpSettle([dp EXCEPT !.phase = "done"], "rejected", <<"connector info">>)
    /\ UNCHANGED <<purgeVars, da, batch, tr, lv, lb, cd, dov, rt, pd>>

\* a comparison of the providers alone (not what the code does)
SameFilesource_ProviderOnly(destProvider, destProduct, srcProvider, srcProduct) ==
    destProvider = srcProvider

\* line 290: the test that allows the transfer
SameFilesource(destProvider, destProduct, srcProvider, srcProduct) ==
    destProvider = srcProvider /\ destProduct = srcProduct

\* lines 281-298: the source's provider and product; transferBackupFiles is
\* called for the same filesource kind, the transfer is rejected otherwise
SourceInfoResolve(provider, product) ==
    /\ dp.phase = "sourceInfo"
    /\ LET d == [dp EXCEPT !.sourceProvider = provider, !.sourceProduct = product]
       IN  dp' = IF SameFilesource(dp.destinationProvider, dp.destinationProduct,
                                   provider, product)
                 THEN Dispatch([d EXCEPT !.transferCalls = @ + 1],
                               "transferBackupFiles", provider, product)
                 ELSE DpSettle([d EXCEPT !.phase = "done"], "rejected",
                               <<"File transfer between different filesource providers / products is not currenly supported">>)
    /\ UNCHANGED <<purgeVars, da, batch, tr, lv, lb, cd, dov, rt, pd>>

DispatchInit ==
    /\ PurgeInit({JSUndefined}, {1}, <<>>)
    /\ da = DaIdle
    /\ UtilIdle

DispatchNext ==
    \/ \E operation \in DispatchOperations : DispatchCall(operation)
    \/ \E provider \in Providers, product \in Products :
          \/ ConnectorInfoResolve(provider, product)
          \/ TransferBackupFilesCall(provider, product)
          \/ DestinationInfoResolve(provider, product)
          \/ SourceInfoResolve(provider, product)
    \/ ConnectorInfoFails
    \/ \E ok \in BOOLEAN : ConnectorSettle(ok) \/ TransferFilesStep(ok)
    \/ TransferFilesCall
    \/ TransferInfoFails

DispatchSpec == DispatchInit /\ [][DispatchNext]_vars

\* the switch on provider and product has run
Routed == dp.provider # ""

\* the error's message names the string
Names(error, text) == \E k \in 1..Len(error) : error[k] = text

\* C23: whatever the operation, a (provider, product) pair other than
\* (google, storage) and (amazon, s3) is rejected with an error that names the
\* provider and the product, and no connector operation is invoked;
\* (google, storage) reaches the GCS connector only, (amazon, s3) the S3
\* connector only, through the operation of the same name.
C23_RoutesByProviderAndProduct ==
    Routed =>
      LET pair == <<dp.provider, dp.product>>
      IN  /\ pair \notin {<<"google", "storage">>, <<"amazon", "s3">>} =>
                /\ dp.promise = "rejected"
                /\ Names(dp.error, dp.provider) /\ Names(dp.error, dp.product)
                /\ dp.connectorCalls = <<>>
          /\ pair = <<"google", "storage">> =>
                dp.connectorCalls = <<[connector |-> "gcs",
                                       operation |-> IF dp.operation = "transferFiles"
                                                     THEN "transferBackupFiles"
                                                     ELSE dp.operation]>>
          /\ pair = <<"amazon", "s3">> =>
                dp.connectorCalls = <<[connector |-> "s3",
                                       operation |-> IF dp.operation = "transferFiles"
                                                     THEN "transferBackupFiles"
                                                     ELSE dp.operation]>>

\* deleteAll asked for a google filesource whose product is s3
C23_Witness ==
    /\ dp.operation = "deleteAll"
    /\ dp.provider = "google" /\ dp.product = "s3"
    /\ dp.promise = "rejected"
    /\ dp.phase = "done"

\* the source's connector info of a transferFiles call has arrived
SourceKnown == dp.operation = "transferFiles" /\ dp.sourceProvider # ""

\* C24: when the source and the destination of transferFiles resolve to
\* different (provider, product) pairs the transfer is rejected, and neither
\* transferBackupFiles nor any connector is called; transferBackupFiles is
\* called only when the two pairs are equal.
C24_DifferentFilesourcesRejected ==
    SourceKnown =>
      IF <<dp.sourceProvider, dp.sourceProduct>> #
         <<dp.destinationProvider, dp.destinationProduct>>
      THEN /\ dp.promise = "rejected"
           /\ dp.transferCalls = 0
           /\ dp.connectorCalls = <<>>
      ELSE dp.transferCalls = 1

\* a transfer from amazon s3 to a destination on amazon's other product
C24_Witness ==
    /\ SourceKnown
    /\ dp.sourceProvider = "amazon" /\ dp.sourceProduct = "s3"
    /\ dp.destinationProvider = "amazon" /\ dp.destinationProduct = "blob"
    /\ dp.promise = "rejected"

\* the manifest of the transfer, public entries first
TrObjects == AllObjects(tr.filesObject)

\* the entries of the manifest that are marked latest
MarkedLatest(objs) == SelectSeq(objs, LAMBDA o : o.IsLatest = JSBool(TRUE))

\* the S3 transfer has built and pushed its copy commands
S3Pushed == tr.connector = "s3" /\ tr.phase \in {"pushed", "running", "drained"}

\* C25: the S3 transfer submits one copy task per manifest entry marked latest,
\* in manifest order, and none for an entry that is not marked latest, be its
\* IsLatest false or absent.
C25_OnlyMarkedLatestCopied ==
    S3Pushed =>
        /\ Len(tr.copyCommands) = Len(MarkedLatest(TrObjects))
        /\ \A k \in 1..Len(tr.copyCommands) :
              tr.copyCommands[k] =
                  CopyParameters(tr.sourceV2, tr.destinationV2, MarkedLatest(TrObjects)[k])

\* the GCS transfer has built and pushed its copy commands
GcsPushed == tr.connector = "gcs" /\ tr.phase \in {"pushed", "running", "drained"}

\* the copy commands submitted for file path key
CommandsFor(key) == {k \in 1..Len(tr.copyCommands) : tr.copyCommands[k].filePath = key}

\* the generations the manifest holds for file path key
GenerationsOf(key) == {TrObjects[k].VersionId : k \in {j \in 1..Len(TrObjects) : TrObjects[j].Key = key}}

Submitted == SelectSeq(TrObjects, LAMBDA o : o.IsLatest # JSBool(FALSE))

\* C27: in every copy command of the S3 transfer the destination is the
\* destination's shared bucket with the key prefixed by the destination
\* installation id (version 2 destination), or the bucket named after the
\* destination installation with the key unchanged (version 1); the copy source
\* is sharedBucket/sourceInstallationId/key (version 2 source) or
\* sourceInstallationId/key (version 1), and always carries the version id.
C27_TransferLocators ==
    S3Pushed =>
        /\ Len(tr.copyCommands) = Len(Submitted)
        /\ \A k \in 1..Len(tr.copyCommands) :
              LET c == tr.copyCommands[k]
                  o == Submitted[k]
                  version == "?versionId=" \o VersionIds[o.VersionId]
              IN  /\ tr.destinationV2 =>
                        c.Bucket = "dstshared" /\ c.Key = "dst/" \o o.Key
                  /\ ~tr.destinationV2 =>
                        c.Bucket = "dst" /\ c.Key = o.Key
                  /\ tr.sourceV2 =>
                        c.CopySource = "srcshared/src/" \o o.Key \o version
                  /\ ~tr.sourceV2 =>
                        c.CopySource = "src/" \o o.Key \o version

\* a copy from a version 1 source into a version 2 destination
C27_Witness ==
    /\ S3Pushed
    /\ ~tr.sourceV2 /\ tr.destinationV2
    /\ Len(tr.copyCommands) = 2
    /\ tr.copyCommands[1] = [CopySource |-> "src/a?versionId=v2", Bucket |-> "dstshared",
                             Key |-> "dst/a"]

\* the transfer has pushed its copy commands (none, perhaps)
TrPushed == tr.phase \in {"pushed", "running", "drained"}

\* C28: once the copy commands are pushed the promise of transferBackupFiles is
\* never rejected, whatever copies fail; it is resolved when the last submitted
\* copy has completed, and not before; a transfer whose manifest leaves nothing
\* to copy resolves as well.
C28_ResolvesWhateverFails ==
    /\ [](TrPushed => tr.promise # "rejected")
    /\ [](tr.phase = "running" => (~TrAllDone /\ tr.promise = "pending"))
    /\ [](tr.phase = "drained" => (TrAllDone /\ tr.promise = "resolved"))
    /\ (TrPushed ~> tr.promise = "resolved")

\* both copies of an S3 transfer failed and the transfer resolved
C28_Witness ==
    /\ tr.phase = "drained"
    /\ Len(tr.copyCommands) = 2
    /\ tr.copyFailed = {1, 2}
    /\ tr.promise = "resolved"

-------------------------------------------------------------------------------
(* file-management-utils.js, S3 connector: putBucketTags (lines 1123-1150),
   putBucketEncryption (1159-1187) and putBucketVersioning (1196-1222) *)

RetryHelpers == {"putBucketTags", "putBucketEncryption", "putBucketVersioning"}

\* lines 1138, 1174, 1209: the value of retries from which a failure is final
RetryLimit == 5

\* line 1139: Math.random() * 6 - 3 lies in [-3, 3); its whole part
JitterSpan == 6
JitterShift == 3
Jitters == {j - JitterShift : j \in 0..(JitterSpan - 1)}

\* Math.pow(2, retries)
RECURSIVE Pow2(_)
Pow2(n) == IF n = 0 THEN 1 ELSE 2 * Pow2(n - 1)

\* a retry after every failure up to one value of retries more
MayRetry_OnceMore(retries) == retries < RetryLimit + 1

\* lines 1138, 1174, 1209: if (retries < 5)
MayRetry(retries) == retries < RetryLimit

\* a jitter from retries = 1 on
Jittered_FromOne(retries) == retries > 0

\* lines 1139, 1175, 1210: retries > 1 ? ... + (Math.random() * 6 - 3) : ...
Jittered(retries) == retries > 1

\* lines 1139, 1175, 1210: retryTime, with jitter j where one is drawn
RetryTime(retries, j) ==
    IF Jittered(retries) THEN Pow2(retries) + j ELSE Pow2(retries)

\* resolve / reject of the promise of the first call; the promises of the
\* recursive calls pass their outcome on to it (.then(resolve).catch(reject))
RtSettle(r, how, error) ==
    IF r.promise = "pending"
    THEN [r EXCEPT !.promise = how, !.error = error, !.settles = @ + 1]
    ELSE r

\* lines 1123-1135: the helper is called without retries (retries || 0) and
\* sends its command
RetryCall(helper) ==
    /\ rt.phase = "idle"
    /\ rt' = [rt EXCEPT !.phase = "sending", !.helper = helper, !.retries = 0]
    /\ UNCHANGED <<purgeVars, da, batch, tr, lv, lb, cd, dov, dp, pd>>

\* lines 1136-1148: the command succeeded (resolve), or failed: a retry is
\* scheduled after retryTime, or, at the limit, the error is passed to reject.
\* The error of attempt n is n.
AttemptSettle(ok, j) ==
    /\ rt.phase = "sending"
    /\ LET n == Len(rt.attempts) + 1
           r == [rt EXCEPT !.attempts = Append(@, IF ok THEN "ok" ELSE "failed")]
       IN  rt' = IF ok
                 THEN RtSettle([r EXCEPT !.phase = "done"], "resolved", 0)
                 ELSE IF MayRetry(rt.retries)
                      THEN [r EXCEPT !.phase = "waiting",
                                     !.timers = Append(@, [after |-> n,
                                                  jittered |-> Jittered(rt.retries),
                                                  delay |-> RetryTime(rt.retries, j)])]
                      ELSE RtSettle([r EXCEPT !.phase = "done"], "rejected", n)
    /\ UNCHANGED <<purgeVars, da, batch, tr, lv, lb, cd, dov, dp, pd>>

\* lines 1140-1144: the timer fires and the helper calls itself with
\* retries + 1
RetryTimer ==
    /\ rt.phase = "waiting"
    /\ rt' = [rt EXCEPT !.phase = "sending", !.retries = @ + 1]
    /\ UNCHANGED <<purgeVars, da, batch, tr, lv, lb, cd, dov, dp, pd>>

RetryInit ==
    /\ PurgeInit({JSUndefined}, {1}, <<>>)
    /\ da = DaIdle
    /\ UtilIdle

RetryNext ==
    \/ \E helper \in RetryHelpers : RetryCall(helper)
    \/ \E ok \in BOOLEAN, j \in Jitters : AttemptSettle(ok, j)
    \/ RetryTimer

RetrySpec == RetryInit /\ [][RetryNext]_vars

\* every attempt made so far has failed
AllFailed == \A k \in 1..Len(rt.attempts) : rt.attempts[k] = "failed"

\* C29, as stated: a retry helper makes at most 5 attempts when every attempt
\* fails, then rejects with the error of the final attempt; its promise settles
\* exactly once.
C29_AtMostFiveAttempts ==
    /\ AllFailed => Len(rt.attempts) <= 5
    /\ (rt.phase = "done" /\ AllFailed) =>
          (rt.promise = "rejected" /\ rt.error = Len(rt.attempts) /\ rt.settles = 1)

\* C29, amended: a retry helper makes at most 6 attempts, the first and 5
\* retries; when all 6 have failed it rejects with the error of the sixth, and
\* not before; its promise settles exactly once, with the last attempt.
C29_AtMostFiveRetries ==
    /\ Len(rt.attempts) <= 6
    /\ Len(rt.timers) <= 5
    /\ (rt.phase = "done" /\ AllFailed) =>
          /\ Len(rt.attempts) = 6
          /\ rt.promise = "rejected" /\ rt.error = 6
    /\ rt.promise = "rejected" => (AllFailed /\ Len(rt.attempts) = 6)
    /\ rt.settles = (IF rt.phase = "done" THEN 1 ELSE 0)

\* six attempts failed and the helper rejected with the error of the sixth
C29_Witness ==
    /\ rt.phase = "done"
    /\ AllFailed
    /\ Len(rt.attempts) = 6
    /\ rt.promise = "rejected"
    /\ rt.error = 6
    /\ rt.settles = 1

\* the jitter in the delay of timer k
JitterOf(k) == rt.timers[k].delay - Pow2(k - 1)

\* no timer is set after a successful attempt
NoRetryAfterSuccess ==
    /\ \A k \in 1..Len(rt.timers) : rt.attempts[rt.timers[k].after] = "failed"
    /\ \A k \in 1..Len(rt.attempts) : rt.attempts[k] = "ok" => Len(rt.timers) < k

\* C30, as stated: the delay before retry k is 2^(k-1) with no jitter for
\* k = 1, and 2^(k-1) plus a bounded random jitter for every k >= 2; no retry
\* is scheduled after a successful attempt.
C30_JitterFromSecondRetry ==
    /\ \A k \in 1..Len(rt.timers) :
          IF k = 1
          THEN ~rt.timers[k].jittered /\ JitterOf(k) = 0
          ELSE rt.timers[k].jittered /\ JitterOf(k) \in -3..2
    /\ NoRetryAfterSuccess

\* C30, amended: the delay before retry k is 2^(k-1) with no jitter for k = 1
\* and for k = 2, and 2^(k-1) plus a random jitter of at least -3 and less than
\* 3 for every k >= 3; no retry is scheduled after a successful attempt.
C30_JitterFromThirdRetry ==
    /\ \A k \in 1..Len(rt.timers) :
          IF k <= 2
          THEN ~rt.timers[k].jittered /\ JitterOf(k) = 0
          ELSE rt.timers[k].jittered /\ JitterOf(k) \in -3..2
    /\ NoRetryAfterSuccess

\* three retries were scheduled, the third one with the lowest jitter, and the
\* fourth attempt succeeded
C30_Witness ==
    /\ Len(rt.timers) = 3
    /\ rt.timers[2].delay = 2
    /\ rt.timers[3].delay = 1
    /\ rt.attempts = <<"failed", "failed", "failed", "ok">>
    /\ rt.promise = "resolved"

-------------------------------------------------------------------------------
(* Claims about failures of the listings and about the purge's deletions *)

\* C31: when a page request of the S3 listFileVersions fails, the promise is
\* rejected with the error of that request, the failed request is the last one
\* sent, and what was accumulated is never delivered as a success; the GCS
\* listFileVersions rejects without listing when the bucket does not exist.
C31_ListingFailureRejects ==
    /\ (lv.connector = "s3" /\ lv.failed) =>
          /\ lv.promise = "rejected" /\ lv.error = "fetch"
          /\ lv.phase = "settled" /\ ~lv.truncated
    /\ (lv.connector = "gcs" /\ lv.error = "Bucket not found!") =>
          (lv.promise = "rejected" /\ lv.getFilesCalls = 0)
    /\ (lv.connector = "gcs" /\ lv.getFilesCalls = 0) => lv.promise # "resolved"
    /\ lv.promise # "pending" => lv.phase = "settled"

\* the second page request of an S3 listing failed after a first page that held
\* an object version
C31_Witness ==
    /\ lv.connector = "s3"
    /\ lv.failed
    /\ Len(lv.requests) = 2
    /\ Len(lv.Versions) > 0
    /\ lv.promise = "rejected"

\* every deleteAll call of installation i has come to its end: its task called
\* done(), or its batch drained into the TypeError of the drain callback
DeletionsEnded(i) ==
    /\ stage[i] \in {"running", "drained"}
    /\ Queued(taskState[i]) = {}
    /\ Running(taskState[i]) = {}

\* C32: for an installation whose tasks were pushed, 'Purge complete' is logged
\* at most once, never while a deleteAll call of the installation is waiting or
\* in flight, and it has been logged once every deleteAll call of the
\* installation has ended, successfully or not.
C32_PurgeCompleteOnce ==
    \A i \in InstallationIds :
        /\ purgeComplete[i] <= 1
        /\ purgeComplete[i] = 1 =>
              (stage[i] = "drained" /\ InFlight(taskState[i]) = {} /\
               Queued(taskState[i]) = {})
        /\ DeletionsEnded(i) => purgeComplete[i] = 1

\* the deleteAll call has come to rest: its batch has drained and neither the
\* second listing nor a bucket deletion is under way
DeleteAllAtRest ==
    /\ da.phase = "drained"
    /\ da.relist # "pending"
    /\ da.bucketDelete # "pending"

\* C33: a deleteAll call whose first listing succeeded settles its promise:
\* once its batch has drained and nothing it started is still under way, the
\* promise is resolved or rejected, whatever the outcomes of the object
\* deletions, for an empty listing too, on either connector, for the bucket
\* root and for a folder.
C33_DeleteAllSettles ==
    DeleteAllAtRest => da.promise # "pending"

\* C34: for deleteAll of the bucket root, the promise is not settled while the
\* bucket deletion is under way; it is resolved with the 'deleted bucket
\* successfully' result when the bucket deletion succeeded, and rejected when
\* the bucket deletion or the second listing failed.
C34_OutcomeReflectsBucketDeletion ==
    da.folder = "" =>
        /\ da.bucketDelete = "pending" => da.promise = "pending"
        /\ da.bucketDelete = "resolved" =>
              (da.promise = "resolved" /\ da.result = "deletedBucket")
        /\ (da.bucketDelete = "rejected" \/ da.relist = "rejected") =>
              da.promise = "rejected"

-------------------------------------------------------------------------------
(* The deletion of one purge candidate, key by key: purgeScript.js lines
   125-131, deleteAll (file-management-utils.js lines 530-592 and 915-984) and
   the listings it starts (lines 383-386 and 723-733).  Names and keys are
   sequences of characters; 'backups/' counts as one. *)

\* the longest backup name, and the most objects the bucket holds
MaxName == 2
MaxStored == 2

NameChars == {"1", "2"}

\* the backup folders the bucket may hold
FolderNameSet == UNION {[1..n -> NameChars] : n \in 1..MaxName}

\* the key of the one file stored for a backup: 'backups/' + name + '/f'
FileKey(name) == <<"backups/">> \o name \o <<"/", "f">>

StoredSets == {keys \in SUBSET {FileKey(n) : n \in FolderNameSet} :
                  Cardinality(keys) <= MaxStored}

\* purgeScript.js line 126: let path = 'backups/' + currentBackup.name
TaskPath(name) == <<"backups/">> \o name

\* lines 723-733 and 383-386: ListObjectVersions with Prefix: folder, and
\* getFiles with prefix: folder, answer every key that starts with the string
ListedKeys(stored, folder) == {key \in stored : IsPrefix(folder, key)}

\* purgeScript.js lines 110 and 125-131, file-management-utils.js lines 538 and
\* 919: the task of candidate name calls deleteAll with the path as folder,
\* which starts the listing
FolderDeleteCall(connector, name, stored) ==
    /\ pd.phase = "idle"
    /\ FileKey(name) \in stored
    /\ pd' = [pd EXCEPT !.phase = "listing", !.connector = connector, !.name = name,
                        !.stored = stored, !.folder = TaskPath(name)]
    /\ UNCHANGED <<purgeVars, da, batch, tr, lv, lb, cd, dov, dp, rt>>

\* lines 584-592 and 968-984: the listing answered; one delete task per listed
\* key is pushed
FolderListed ==
    /\ pd.phase = "listing"
    /\ pd' = [pd EXCEPT !.phase = "deleting",
                        !.listed = ListedKeys(pd.stored, pd.folder)]
    /\ UNCHANGED <<purgeVars, da, batch, tr, lv, lb, cd, dov, dp, rt>>

\* lines 546-549 and 927-930: the object at a listed key was deleted
FolderDeleteObject(key) ==
    /\ pd.phase = "deleting"
    /\ key \in pd.listed \ pd.deleted
    /\ pd' = [pd EXCEPT !.deleted = @ \cup {key}, !.stored = @ \ {key}]
    /\ UNCHANGED <<purgeVars, da, batch, tr, lv, lb, cd, dov, dp, rt>>

FolderInit ==
    /\ PurgeInit({JSUndefined}, {1}, <<>>)
    /\ da = DaIdle
    /\ UtilIdle

FolderNext ==
    \/ /\ pd.phase = "idle"
       /\ \E connector \in Connectors, name \in FolderNameSet, stored \in StoredSets :
             FolderDeleteCall(connector, name, stored)
    \/ FolderListed
    \/ \E name \in FolderNameSet : FolderDeleteObject(FileKey(name))

FolderSpec == FolderInit /\ [][FolderNext]_vars

\* C35: every delete issued for purge candidate N targets a key under the
\* folder backups/N/; no object of another backup is deleted, not even when N
\* is a string prefix of the other backup's name.
C35_DeletesOnlyTheCandidate ==
    /\ \A key \in pd.listed \cup pd.deleted : IsPrefix(pd.folder \o <<"/">>, key)
    /\ \A name \in FolderNameSet :
          FileKey(name) \in pd.deleted => name = pd.name

\* the deleteAll calls of installation i that are executing
Executing(i) == Cardinality(InFlight(taskState[i]))

RECURSIVE SumExecuting(_)
SumExecuting(ids) ==
    IF ids = {} THEN 0
    ELSE LET i == CHOOSE x \in ids : TRUE
         IN  Executing(i) + SumExecuting(ids \ {i})

\* C36: over the whole live run at most 10 deleteAll calls are executing at any
\* time, and the deleteAll calls of two installations are never executing at
\* the same time.
C36_TenDeleteAllsAtMost ==
    /\ SumExecuting(InstallationIds) <= 10
    /\ \A i, j \in InstallationIds :
          (i # j /\ Executing(i) > 0) => Executing(j) = 0

====
